---- MODULE Spec2Model ----
(***************************************************************************)
(* A model of the VFX editor's data core: the parameter schema registry    *)
(* (CryEngineParameterParser), the expression engine of ParameterManager   *)
(* together with the VFXEditor callbacks it notifies, and the CryEngine    *)
(* export serializer (CryEngineExporter).                                  *)
(*                                                                         *)
(* JavaScript values are records tagged by type: [t |-> "num", v |-> n]    *)
(* holds the number n/NumScale (so every modelled number is a binary       *)
(* fraction and arithmetic on it is exact, as it is on the doubles it      *)
(* stands for), [t |-> "bool", v |-> b], [t |-> "str", v |-> s],           *)
(* [t |-> "vec", v |-> <<n1, n2, n3>>] and [t |-> "rgb", r, g, b].         *)
(* A JavaScript Map or plain object is a function whose DOMAIN is its key  *)
(* set; where the code iterates one, the iteration order is kept beside it.*)
(***************************************************************************)
EXTENDS Integers, Sequences, FiniteSets, TLC

VARIABLES
    \* CryEngineParameterParser
    parameterGroups,    \* sequence of groups, each [id, parameters]
    parameterMap,       \* Map: internal name -> definition
    parameterByLabel,   \* Map: display label -> definition
    aliases,            \* Map: alias -> internal name
    loadResult,         \* what loadDefinitions or parse returned: "none" before the call
    renderMode,         \* this.renderMode of the full parser: "undefined" until parse()
    \* ParameterManager
    widgetValue,        \* per parameter row: the text of the widget's value input
    expressions,        \* Map: parameter -> expression text
    references,         \* Map: parameter -> Set of the names its expression reads
    dependents,         \* Map: name -> Set (in insertion order) of its readers
    timers,             \* the setTimeout callbacks of loadEffect not yet run
    \* VFXEditor
    effects,            \* the library's effect objects, by identity
    selectedEffect,     \* the effect being edited, or "null"
    \* what the last handler did
    events,             \* the parameterChanged events it dispatched, in order
    consoleErrors,      \* the 'Expression error' lines it logged
    lastCall,           \* the handler and its arguments
    \* CryEngineExporter
    exportAllParameters, \* the toggle the constructor sets
    xml,                \* what the exporter returned to the last handler that called it
    \* VFXEditor: the export of the library
    currentLibrary,     \* the library the editor holds: [name, items]
    exportPrompt,       \* the open filename dialog of exportLibrary, if any
    download,           \* the last file handed to the browser, if any
    notifications,      \* the toasts of the last export handler
    \* CheckpointManager
    checkpoints,        \* object: slot -> Null or the saved checkpoint
    currentCheckpoint   \* the slot loaded last, or "null"

regVars ==
    <<parameterGroups, parameterMap, parameterByLabel, aliases, loadResult, renderMode>>

mgrVars == <<widgetValue, expressions, references, dependents, timers>>

appVars == <<effects, selectedEffect>>

logVars == <<events, consoleErrors, lastCall>>

expVars == <<exportAllParameters, xml>>

libVars == <<currentLibrary, exportPrompt, download, notifications>>

cpVars == <<checkpoints, currentCheckpoint>>

vars == <<regVars, mgrVars, appVars, logVars, expVars, libVars, cpVars>>

-----------------------------------------------------------------------------
(* Bounds of the model *)

\* the most <Param> nodes of a schema document
MaxDefs == 3

\* The most timers of loadEffect pending at once.
MaxTimers == 2

\* The most entries of the params object of an exported effect.
MaxEntries == 2

\* the highest checkpoint slot that is used
MaxSlots == 3

-----------------------------------------------------------------------------
(* JavaScript Map / object helpers *)

\* new Map()
EmptyMap == [k \in {} |-> TRUE]

\* the value `undefined`
Undefined == [undefined |-> TRUE]

\* null, as the value of an empty checkpoint slot
Null == [null |-> TRUE]

\* new CheckpointManager(): the slots 1 and 2, both empty
NoCheckpoints ==
    /\ checkpoints = [slot \in {"1", "2"} |-> Null]
    /\ currentCheckpoint = "null"

\* map.has(k)
MapHas(m, k) == k \in DOMAIN m

\* map.get(k)
MapGet(m, k) == IF k \in DOMAIN m THEN m[k] ELSE Undefined

\* map.set(k, v)
MapSet(m, k, v) == [x \in (DOMAIN m) \cup {k} |-> IF x = k THEN v ELSE m[x]]

\* map.delete(k)
MapDelete(m, k) == [x \in (DOMAIN m) \ {k} |-> m[x]]

-----------------------------------------------------------------------------
(* JavaScript numbers and strings *)

\* A modelled number n stands for n / NumScale.
NumScale == 16

Num(n) == [t |-> "num", v |-> n]

\* the number NaN
NaN == [t |-> "nan"]

Bool(b) == [t |-> "bool", v |-> b]

Str(s) == [t |-> "str", v |-> s]

Vec(ns) == [t |-> "vec", v |-> ns]

Rgb(r, g, b) == [t |-> "rgb", r |-> r, g |-> g, b |-> b]

\* the whole number k as a number value
Whole(k) == Num(k * NumScale)

Abs(n) == IF n < 0 THEN -n ELSE n

RECURSIVE Pow10(_)
Pow10(d) == IF d = 0 THEN 1 ELSE 10 * Pow10(d - 1)

\* s.charAt(i - 1)
Ch(s, i) == SubSeq(s, i, i)

DigitChars == {"0", "1", "2", "3", "4", "5", "6", "7", "8", "9"}

LowerChars == {"a", "b", "c", "d", "e", "f", "g", "h", "i", "j", "k", "l", "m",
               "n", "o", "p", "q", "r", "s", "t", "u", "v", "w", "x", "y", "z"}

UpperChars == {"A", "B", "C", "D", "E", "F", "G", "H", "I", "J", "K", "L", "M",
               "N", "O", "P", "Q", "R", "S", "T", "U", "V", "W", "X", "Y", "Z"}

DigitVal(c) ==
    CASE c = "0" -> 0 [] c = "1" -> 1 [] c = "2" -> 2 [] c = "3" -> 3
      [] c = "4" -> 4 [] c = "5" -> 5 [] c = "6" -> 6 [] c = "7" -> 7
      [] c = "8" -> 8 [] c = "9" -> 9

\* k written with exactly d digits (leading zeros)
RECURSIVE PadDigits(_, _)
PadDigits(k, d) ==
    IF d = 0 THEN "" ELSE PadDigits(k \div 10, d - 1) \o ToString(k % 10)

\* Number.prototype.toFixed(d): the nearest multiple of 10^-d, a tie going
\* to the larger magnitude, written with exactly d decimals.
ToFixed(n, d) ==
    LET a == Abs(n)
        k == (2 * a * Pow10(d) + NumScale) \div (2 * NumScale)
    IN  (IF n < 0 THEN "-" ELSE "")
          \o ToString(k \div Pow10(d))
          \o (IF d = 0 THEN "" ELSE "." \o PadDigits(k % Pow10(d), d))

RECURSIVE StripZeros(_)
StripZeros(s) ==
    IF s # "" /\ Ch(s, Len(s)) = "0" THEN StripZeros(SubSeq(s, 1, Len(s) - 1))
    ELSE s

\* Number.prototype.toString() / String(n): the shortest decimal that reads
\* back as n; a multiple of 1/16 has at most four decimals.
NumToString(n) ==
    LET a == Abs(n)
        frac == ((a % NumScale) * 10000) \div NumScale
    IN  (IF n < 0 THEN "-" ELSE "")
          \o ToString(a \div NumScale)
          \o (IF frac = 0 THEN "" ELSE "." \o StripZeros(PadDigits(frac, 4)))

\* the length of the run of decimal digits of s that starts at i
RECURSIVE DigitRun(_, _)
DigitRun(s, i) ==
    IF i <= Len(s) /\ Ch(s, i) \in DigitChars THEN 1 + DigitRun(s, i + 1) ELSE 0

\* the digits s[i .. i+len-1] read as a natural number
RECURSIVE DigitsValue(_, _, _)
DigitsValue(s, i, len) ==
    IF len = 0 THEN 0
    ELSE 10 * DigitsValue(s, i, len - 1) + DigitVal(Ch(s, i + len - 1))

\* parseFloat(s) of a string without leading blanks: an optional sign, digits,
\* an optional fraction; what follows is ignored; NaN when no digit is read.
ParseFloat(s) ==
    LET Value(neg, i0, il, fl) ==
            IF il = 0 /\ fl = 0 THEN NaN
            ELSE Num((IF neg THEN -1 ELSE 1)
                       * (DigitsValue(s, i0, il) * NumScale
                            + (DigitsValue(s, i0 + il + 1, fl) * NumScale) \div Pow10(fl)))
        Fraction(neg, i0, il) ==
            Value(neg, i0, il,
                  IF i0 + il <= Len(s) /\ Ch(s, i0 + il) = "."
                  THEN DigitRun(s, i0 + il + 1) ELSE 0)
        Digits(neg, i0) == Fraction(neg, i0, DigitRun(s, i0))
        Signed(neg) == Digits(neg, IF neg THEN 2 ELSE 1)
    IN  Signed(s # "" /\ Ch(s, 1) = "-")

\* x || 0 for a number x
OrZero(x) == IF x = NaN \/ x = Num(0) THEN Num(0) ELSE x

\* the first index >= i at which character c occurs in s, or 0
RECURSIVE IndexOf(_, _, _)
IndexOf(s, c, i) ==
    IF i > Len(s) THEN 0
    ELSE IF Ch(s, i) = c THEN i
    ELSE IndexOf(s, c, i + 1)

\* c.toLowerCase() for one character
LowerCh(c) ==
    IF c \in UpperChars
    THEN Ch("abcdefghijklmnopqrstuvwxyz", IndexOf("ABCDEFGHIJKLMNOPQRSTUVWXYZ", c, 1))
    ELSE c

\* s.toLowerCase()
RECURSIVE ToLowerCase(_)
ToLowerCase(s) ==
    IF s = "" THEN "" ELSE LowerCh(Ch(s, 1)) \o ToLowerCase(SubSeq(s, 2, Len(s)))

\* s.trim()
RECURSIVE Trim(_)
Trim(s) ==
    IF s # "" /\ Ch(s, 1) = " " THEN Trim(SubSeq(s, 2, Len(s)))
    ELSE IF s # "" /\ Ch(s, Len(s)) = " " THEN Trim(SubSeq(s, 1, Len(s) - 1))
    ELSE s

-----------------------------------------------------------------------------
(* CryEngineParameterParser: the schema registry *)

\* The registry object: the four fields the constructor creates.
Registry(groups, pmap, bylabel, als) ==
    [parameterGroups |-> groups, parameterMap |-> pmap,
     parameterByLabel |-> bylabel, aliases |-> als]

\* constructor()
NewRegistry == Registry(<< >>, EmptyMap, EmptyMap, EmptyMap)

\* The body of params.forEach: the object built from one <Param> node is
\* pushed to its group and indexed by name and by label.  The object has
\* no alias field, so `if (param.alias)` never stores an alias.
ParseParam(reg, gi, param) ==
    [reg EXCEPT
        !.parameterGroups[gi].parameters = Append(@, param),
        !.parameterMap = MapSet(@, param.name, param),
        !.parameterByLabel = MapSet(@, param.label, param)]

RECURSIVE ParseParams(_, _, _)
ParseParams(reg, gi, nodes) ==
    IF nodes = << >> THEN reg
    ELSE ParseParams(ParseParam(reg, gi, Head(nodes)), gi, Tail(nodes))

\* The body of groups.forEach for one <Group> node whose parameters have
\* all been read: the group object is filled, then pushed.
ParseGroup(reg, groupNode) ==
    LET gi == Len(reg.parameterGroups) + 1
        open == [reg EXCEPT !.parameterGroups =
                    Append(@, [id |-> ToLowerCase(groupNode.name),
                               title |-> groupNode.name, visible |-> "All",
                               collapsed |-> groupNode.name # "Spawn",
                               parameters |-> << >>])]
    IN  ParseParams(open, gi, groupNode.params)

RECURSIVE ParseGroups(_, _)
ParseGroups(reg, groupNodes) ==
    IF groupNodes = << >> THEN reg
    ELSE ParseGroups(ParseGroup(reg, Head(groupNodes)), Tail(groupNodes))

\* getParameter(name): alias, then internal name, then display label.
getParameterMutLabelFirst(reg, name) ==
    IF MapHas(reg.parameterByLabel, name) THEN reg.parameterByLabel[name]
    ELSE MapGet(reg.parameterMap, name)

getParameter(reg, name) ==
    LET actualName == IF MapHas(reg.aliases, name) THEN reg.aliases[name] ELSE name
    IN  IF MapHas(reg.parameterMap, actualName) THEN reg.parameterMap[actualName]
        ELSE MapGet(reg.parameterByLabel, name)

\* getGroups()
getGroups(reg) == reg.parameterGroups

\* Every definition object the registry holds, in document order.
RECURSIVE FlattenGroups(_)
FlattenGroups(groups) ==
    IF groups = << >> THEN << >>
    ELSE Head(groups).parameters \o FlattenGroups(Tail(groups))

Range(s) == {s[i] : i \in DOMAIN s}

\* the registry the variables hold
TheRegistry == Registry(parameterGroups, parameterMap, parameterByLabel, aliases)

HeldDefinitions == Range(FlattenGroups(parameterGroups))

-----------------------------------------------------------------------------
(* Schema documents given to loadDefinitions *)

\* Internal names are unique in a schema; display labels are not checked:
\* they may be shared, or equal another definition's internal name.
SchemaNames == {"fA", "fB", "fC", "fD"}

SchemaLabels == {"LA", "LB", "fB"}

\* The object literal of lines 40-52 for the <Param> node at document
\* position `node` (two nodes of the same content are still two objects).
\* getAttribute returns null for an attribute the node does not have: the
\* names of those attributes are in `absent`.
ParamObject(name, label, node) ==
    [name |-> name, label |-> label, type |-> "float",
     default |-> "1", widget |-> "slider", min |-> "0", max |-> "100",
     step |-> "1", node |-> node, absent |-> {}]

\* A document: up to MaxDefs <Param> nodes with distinct names, the first
\* `cut` of them in the group Spawn and the rest in the group Timing.
Documents ==
    UNION { { LET node(i) == ParamObject(names[i], labels[i], i)
              IN  << [name |-> "Spawn",
                      params |-> [i \in 1..cut |-> node(i)]],
                     [name |-> "Timing",
                      params |-> [i \in 1..(k - cut) |-> node(cut + i)]] >>
              : names \in {f \in [1..k -> SchemaNames] :
                              \A i, j \in 1..k : i # j => f[i] # f[j]},
                labels \in [1..k -> SchemaLabels],
                cut \in 0..k }
            : k \in 0..MaxDefs }

-----------------------------------------------------------------------------
(* ParameterManager: reference tokens of an expression *)

\* A match of one of the three reference patterns: the matched text is
\* s[from .. to] and `group` is its capture group.
Match(from, to, group) == [from |-> from, to |-> to, group |-> group]

\* matchAll(/\$\{([^}]+)\}/g) from index i on
RECURSIVE DollarMatches(_, _)
DollarMatches(s, i) ==
    IF i > Len(s) THEN << >>
    ELSE IF Ch(s, i) = "$" /\ i < Len(s) /\ Ch(s, i + 1) = "{"
    THEN LET j == IndexOf(s, "}", i + 2)
         IN  IF j > i + 2
             THEN <<Match(i, j, SubSeq(s, i + 2, j - 1))>> \o DollarMatches(s, j + 1)
             ELSE DollarMatches(s, i + 1)
    ELSE DollarMatches(s, i + 1)

IdentStartChars == LowerChars \cup UpperChars \cup {"_"}

IdentRestChars == IdentStartChars \cup DigitChars \cup {" "}

\* the length of the run of [a-zA-Z0-9_\s] that starts at i
RECURSIVE IdentRun(_, _)
IdentRun(s, i) ==
    IF i <= Len(s) /\ Ch(s, i) \in IdentRestChars THEN 1 + IdentRun(s, i + 1) ELSE 0

\* matchAll(/@([a-zA-Z_][a-zA-Z0-9_\s]*)/g) from index i on
RECURSIVE AtMatches(_, _)
AtMatches(s, i) ==
    IF i > Len(s) THEN << >>
    ELSE IF Ch(s, i) = "@" /\ i < Len(s) /\ Ch(s, i + 1) \in IdentStartChars
    THEN LET j == i + 1 + IdentRun(s, i + 2)
         IN  <<Match(i, j, SubSeq(s, i + 1, j))>> \o AtMatches(s, j + 1)
    ELSE AtMatches(s, i + 1)

\* matchAll(/%([^%]+)%/g) from index i on
RECURSIVE PercentMatches(_, _)
PercentMatches(s, i) ==
    IF i > Len(s) THEN << >>
    ELSE IF Ch(s, i) = "%"
    THEN LET j == IndexOf(s, "%", i + 1)
         IN  IF j > i + 1
             THEN <<Match(i, j, SubSeq(s, i + 1, j - 1))>> \o PercentMatches(s, j + 1)
             ELSE PercentMatches(s, i + 1)
    ELSE PercentMatches(s, i + 1)

\* the names refs.add(match[1].trim()) collects from a list of matches
MatchNames(ms) == {Trim(ms[k].group) : k \in DOMAIN ms}

\* extractReferences(expression)
extractReferences(expression) ==
    MatchNames(DollarMatches(expression, 1))
        \cup MatchNames(AtMatches(expression, 1))
        \cup MatchNames(PercentMatches(expression, 1))

\* The replacer callback: the value of the named parameter, or 0 when the
\* snapshot has none, as the string that String.prototype.replace inserts.
Substitute(values, group) ==
    LET name == Trim(group)
    IN  IF MapHas(values, name) THEN NumToString(values[name].v) ELSE "0"

\* s.replace(pattern, callback) given the pattern's matches ms; `from` is the
\* index of the first character not yet copied.
RECURSIVE ReplaceMatches(_, _, _, _)
ReplaceMatches(s, ms, from, values) ==
    IF ms = << >> THEN SubSeq(s, from, Len(s))
    ELSE SubSeq(s, from, Head(ms).from - 1)
           \o Substitute(values, Head(ms).group)
           \o ReplaceMatches(s, Tail(ms), Head(ms).to + 1, values)

\* The three replace passes of evaluateExpression, each over the text the
\* pass before it produced.
SubstituteReferences(expression, values) ==
    LET e1 == ReplaceMatches(expression, DollarMatches(expression, 1), 1, values)
        e2 == ReplaceMatches(e1, AtMatches(e1, 1), 1, values)
    IN  ReplaceMatches(e2, PercentMatches(e2, 1), 1, values)

-----------------------------------------------------------------------------
(* new Function(`... return ${evaluated};`)(): the arithmetic the modelled   *)
(* expressions use -- decimal literals, + and *, blanks -- evaluated with     *)
(* JavaScript's precedence; any other text is a SyntaxError.                 *)

\* the outcome of reading a piece of the text: the value and where to go on
Parsed(v, next) == [ok |-> TRUE, v |-> v, next |-> next]

SyntaxError == [ok |-> FALSE]

RECURSIVE SkipBlanks(_, _)
SkipBlanks(s, i) ==
    IF i <= Len(s) /\ Ch(s, i) = " " THEN SkipBlanks(s, i + 1) ELSE i

\* a decimal literal
EvalLiteral(s, i0) ==
    LET Literal(i, il) ==
            IF il = 0 THEN SyntaxError
            ELSE Parsed(ParseFloat(SubSeq(s, i, Len(s))).v,
                        i + il + (IF i + il <= Len(s) /\ Ch(s, i + il) = "."
                                  THEN 1 + DigitRun(s, i + il + 1) ELSE 0))
        At(i) == Literal(i, DigitRun(s, i))
    IN  At(SkipBlanks(s, i0))

\* literal, then any number of "* literal"
RECURSIVE EvalProductRest(_, _, _)
EvalProductRest(s, acc, i0) ==
    LET Times(n) ==
            IF n.ok THEN EvalProductRest(s, (acc * n.v) \div NumScale, n.next)
            ELSE SyntaxError
        At(i) ==
            IF i <= Len(s) /\ Ch(s, i) = "*" THEN Times(EvalLiteral(s, i + 1))
            ELSE Parsed(acc, i)
    IN  At(SkipBlanks(s, i0))

EvalProduct(s, i) ==
    LET Rest(n) == IF n.ok THEN EvalProductRest(s, n.v, n.next) ELSE SyntaxError
    IN  Rest(EvalLiteral(s, i))

\* product, then any number of "+ product"
RECURSIVE EvalSumRest(_, _, _)
EvalSumRest(s, acc, i0) ==
    LET Plus(n) ==
            IF n.ok THEN EvalSumRest(s, acc + n.v, n.next) ELSE SyntaxError
        At(i) ==
            IF i <= Len(s) /\ Ch(s, i) = "+" THEN Plus(EvalProduct(s, i + 1))
            ELSE Parsed(acc, i)
    IN  At(SkipBlanks(s, i0))

\* The call of the compiled function: the number the text evaluates to, or
\* SyntaxError when the text is not an expression.
EvalJS(text) ==
    LET Done(r) ==
            IF r.ok /\ r.next > Len(text) THEN Parsed(Num(r.v), r.next)
            ELSE SyntaxError
        Sum(n) ==
            Done(IF n.ok THEN EvalSumRest(text, n.v, n.next) ELSE SyntaxError)
    IN  Sum(EvalProduct(text, 1))

-----------------------------------------------------------------------------
(* JavaScript Set and plain-object helpers: both iterate in insertion order *)

\* set.add(x)
SetAdd(q, x) == IF x \in Range(q) THEN q ELSE Append(q, x)

\* set.delete(x)
SetDelete(q, x) == SelectSeq(q, LAMBDA y : y # x)

\* An object {k1: v1, ...}: its keys in insertion order and their values.
Obj(keys, vals) == [keys |-> keys, vals |-> vals]

EmptyObj == Obj(<< >>, EmptyMap)

\* obj[k] = v
ObjSet(o, k, v) == Obj(SetAdd(o.keys, k), MapSet(o.vals, k, v))

\* the object {ks[1]: vs[1], ...} of a literal
RECURSIVE ObjOf(_, _)
ObjOf(ks, vs) ==
    IF ks = << >> THEN EmptyObj
    ELSE ObjSet(ObjOf(SubSeq(ks, 1, Len(ks) - 1), SubSeq(vs, 1, Len(vs) - 1)),
                ks[Len(ks)], vs[Len(vs)])

-----------------------------------------------------------------------------
(* The schema and the library the editor runs with *)

\* parameters.xml: two slider parameters of one group.
StdDocument ==
    << [name |-> "Spawn",
        params |->
          << [name |-> "A", label |-> "LA", type |-> "float", default |-> "1",
              widget |-> "slider", min |-> "0", max |-> "10", step |-> "1",
              node |-> 1, absent |-> {}],
             [name |-> "B", label |-> "LB", type |-> "float", default |-> "2.5",
              widget |-> "slider", min |-> "0", max |-> "20", step |-> "0.5",
              node |-> 2, absent |-> {}] >>] >>

\* The effect item of the library: params and expressions keyed by internal
\* name, by display label, or by a name the schema does not know.
SampleEffects ==
    [e1 |-> [name |-> "Thruster_Main",
             params |-> ObjOf(<<"A", "zz">>, <<Whole(3), Whole(1)>>),
             expressions |-> ObjOf(<<"LB", "zz">>, <<"${A} * 2", "${A}">>)]]

\* The expressions a user gives to rows through the prompt: <<row, text>>.
ExpressionEdits ==
    { <<"B", "${A} * 2">>, <<"A", "${B}">>, <<"B", "${A}">>,
      <<"A", "${A} * 2">>, <<"B", "%ghost% + 1">>, <<"A", " @A *">> }

\* The texts a user types into the value inputs of sliders: <<row, text>>.
SliderEdits == { <<"A", "3">>, <<"A", "10">>, <<"B", "30">>, <<"B", "abc">> }

-----------------------------------------------------------------------------
(* ParameterManager and the VFXEditor listener, as functions of the state   *)
(* record st that a handler threads through its calls                        *)

\* the rows render() builds: one per definition of every non-empty group
RowNames == {d.name : d \in HeldDefinitions}

\* createSlider: the bounds and the step the widget keeps
SliderMin(def) == IF def.min = "" THEN Num(0) ELSE ParseFloat(def.min)

SliderMax(def) == IF def.max = "" THEN Whole(100) ELSE ParseFloat(def.max)

SliderStep(def) == IF def.step = "" THEN Whole(1) ELSE ParseFloat(def.step)

\* createSlider: the value input starts at the default, written as a number
SliderInitial(def) ==
    NumToString((IF def.default = "" THEN Whole(50) ELSE ParseFloat(def.default)).v)

\* Math.max(min, Math.min(max, v))
Min2(a, b) == IF a < b THEN a ELSE b

Max2(a, b) == IF a > b THEN a ELSE b

Clamp(lo, hi, n) == Max2(lo, Min2(hi, n))

\* value.toFixed(step >= 1 ? 0 : 2)
SliderText(def, n) == ToFixed(n, IF SliderStep(def).v >= NumScale THEN 0 ELSE 2)

\* render(): every row gets a fresh widget showing its default
RenderedWidgets ==
    [n \in RowNames |-> SliderInitial(getParameter(TheRegistry, n))]

\* getParameterValue(paramName)
getParameterValue(st, paramName) ==
    IF ~MapHas(st.widgetValue, paramName) THEN Num(0)
    ELSE OrZero(ParseFloat(st.widgetValue[paramName]))

\* setParameterValue(paramName, value) for a number: the slider clamps it to
\* its range and shows it at the precision of its step.
setParameterValueMutNoClamp(st, paramName, value) ==
    LET Show(def) ==
            [st EXCEPT !.widgetValue[paramName] = SliderText(def, value.v)]
    IN  IF ~MapHas(st.widgetValue, paramName) THEN st
        ELSE Show(getParameter(TheRegistry, paramName))

setParameterValue(st, paramName, value) ==
    LET Show(def) ==
            [st EXCEPT !.widgetValue[paramName] =
                SliderText(def, Clamp(SliderMin(def).v, SliderMax(def).v, value.v))]
    IN  IF ~MapHas(st.widgetValue, paramName) THEN st
        ELSE Show(getParameter(TheRegistry, paramName))

\* VFXEditor.onParameterChanged(data): with no effect selected, reading
\* this.selectedEffect.name throws inside the listener and nothing is stored.
onParameterChanged(st, name, value) ==
    IF st.selectedEffect = "null" THEN st
    ELSE [st EXCEPT !.effects[st.selectedEffect].params = ObjSet(@, name, value)]

\* dispatchParameterChange(name, value): the event and its one listener
dispatchParameterChange(st, name, value) ==
    onParameterChanged([st EXCEPT !.events = Append(@, <<name, value>>)],
                       name, value)

\* The snapshot evaluateExpression takes: the value of every row.
Snapshot(st) == [n \in RowNames |-> getParameterValue(st, n)]

evaluateExpressionMutUpdateOnError(st, paramName) ==
    LET Update(result) ==
            IF ~result.ok
            THEN dispatchParameterChange(
                     setParameterValue(
                         [st EXCEPT !.consoleErrors =
                                Append(@, [message |-> "Expression error:",
                                           param |-> paramName])],
                         paramName, Num(0)),
                     paramName, Num(0))
            ELSE dispatchParameterChange(
                     setParameterValue(st, paramName, result.v),
                     paramName, result.v)
    IN  IF ~MapHas(st.expressions, paramName) \/ st.expressions[paramName] = ""
        THEN st
        ELSE Update(EvalJS(SubstituteReferences(st.expressions[paramName],
                                                Snapshot(st))))

\* evaluateExpression(paramName)
evaluateExpression(st, paramName) ==
    LET Update(result) ==
            IF ~result.ok
            THEN [st EXCEPT !.consoleErrors =
                                Append(@, [message |-> "Expression error:",
                                           param |-> paramName])]
            ELSE dispatchParameterChange(
                     setParameterValue(st, paramName, result.v),
                     paramName, result.v)
    IN  IF ~MapHas(st.expressions, paramName) \/ st.expressions[paramName] = ""
        THEN st
        ELSE Update(EvalJS(SubstituteReferences(st.expressions[paramName],
                                                Snapshot(st))))

\* setExpression: the loop over the old references
ClearOldReferences(deps, oldRefs, paramName) ==
    LET emptied == {r \in oldRefs \cap DOMAIN deps : SetDelete(deps[r], paramName) = << >>}
    IN  [r \in (DOMAIN deps) \ emptied |->
            IF r \in oldRefs THEN SetDelete(deps[r], paramName) ELSE deps[r]]

AddDependentsMutOverwrite(deps, refs, paramName) ==
    [r \in (DOMAIN deps) \cup refs |->
        IF r \in refs THEN <<paramName>> ELSE deps[r]]

\* setExpression: the loop over the new references
AddDependents(deps, refs, paramName) ==
    [r \in (DOMAIN deps) \cup refs |->
        IF r \in refs
        THEN SetAdd(IF r \in DOMAIN deps THEN deps[r] ELSE << >>, paramName)
        ELSE deps[r]]

setExpressionMutEvaluateFirst(st, paramName, expression) ==
    LET Install(s0, oldRefs, refs) ==
            [s0 EXCEPT !.expressions = MapSet(@, paramName, expression),
                       !.references = MapSet(@, paramName, refs),
                       !.dependents =
                           AddDependents(ClearOldReferences(@, oldRefs, paramName),
                                         refs, paramName)]
    IN  Install(evaluateExpression(st, paramName),
                IF MapHas(st.references, paramName)
                THEN st.references[paramName] ELSE {},
                extractReferences(expression))

\* setExpression(paramName, expression)
setExpression(st, paramName, expression) ==
    LET Install(oldRefs, refs) ==
            [st EXCEPT !.expressions = MapSet(@, paramName, expression),
                       !.references = MapSet(@, paramName, refs),
                       !.dependents =
                           AddDependents(ClearOldReferences(@, oldRefs, paramName),
                                         refs, paramName)]
    IN  evaluateExpression(
            Install(IF MapHas(st.references, paramName)
                    THEN st.references[paramName] ELSE {},
                    extractReferences(expression)),
            paramName)

clearExpressionMutKeepDependents(st, paramName) ==
    [st EXCEPT !.expressions = MapDelete(@, paramName),
               !.references = MapDelete(@, paramName)]

clearExpressionMutKeepReferences(st, paramName) ==
    LET refs == IF MapHas(st.references, paramName)
                THEN st.references[paramName] ELSE {}
    IN  [st EXCEPT
            !.expressions = MapDelete(@, paramName),
            !.dependents = [r \in DOMAIN @ |->
                               IF r \in refs THEN SetDelete(@[r], paramName)
                               ELSE @[r]]]

clearExpressionMutResetValue(st, paramName) ==
    LET refs == IF MapHas(st.references, paramName)
                THEN st.references[paramName] ELSE {}
    IN  [st EXCEPT
            !.expressions = MapDelete(@, paramName),
            !.dependents = [r \in DOMAIN @ |->
                               IF r \in refs THEN SetDelete(@[r], paramName)
                               ELSE @[r]],
            !.references = MapDelete(@, paramName),
            !.widgetValue[paramName] =
                SliderInitial(getParameter(TheRegistry, paramName))]

\* clearExpression(paramName)
clearExpression(st, paramName) ==
    LET refs == IF MapHas(st.references, paramName)
                THEN st.references[paramName] ELSE {}
    IN  [st EXCEPT
            !.expressions = MapDelete(@, paramName),
            !.dependents = [r \in DOMAIN @ |->
                               IF r \in refs THEN SetDelete(@[r], paramName)
                               ELSE @[r]],
            !.references = MapDelete(@, paramName)]

RECURSIVE EvaluateEachMutTwice(_, _)
EvaluateEachMutTwice(st, deps) ==
    IF deps = << >> THEN st
    ELSE EvaluateEachMutTwice(
             evaluateExpression(evaluateExpression(st, Head(deps)), Head(deps)),
             Tail(deps))

\* deps.forEach(depName => this.evaluateExpression(depName))
RECURSIVE EvaluateEach(_, _)
EvaluateEach(st, deps) ==
    IF deps = << >> THEN st
    ELSE EvaluateEach(evaluateExpression(st, Head(deps)), Tail(deps))

\* handleValueChange(paramName, value)
handleValueChange(st, paramName, value) ==
    LET deps == IF MapHas(st.dependents, paramName)
                THEN st.dependents[paramName] ELSE << >>
    IN  dispatchParameterChange(EvaluateEach(st, deps), paramName, value)

\* resetParameter: the default of the XML, converted by the declared type
ResetDefault(param) ==
    CASE param.type \in {"float", "int"} -> ParseFloat(param.default)
      [] param.type = "bool" -> Bool(param.default = "true")
      [] OTHER -> Str(param.default)

resetParameterMutKeepExpression(st, param) ==
    LET defaultValue == ResetDefault(param)
    IN  dispatchParameterChange(setParameterValue(st, param.name, defaultValue),
                                param.name, defaultValue)

\* resetParameter(param)
resetParameter(st, param) ==
    LET defaultValue == ResetDefault(param)
    IN  dispatchParameterChange(
            clearExpression(setParameterValue(st, param.name, defaultValue),
                            param.name),
            param.name, defaultValue)

\* loadEffect's first timer: the saved values go to the widgets
RECURSIVE LoadParams(_, _, _)
LoadParams(st, params, i) ==
    IF i > Len(params.keys) THEN st
    ELSE LET name == params.keys[i]
             paramDef == getParameter(TheRegistry, name)
         IN  LoadParams(IF paramDef = Undefined THEN st
                        ELSE setParameterValue(st, paramDef.name, params.vals[name]),
                        params, i + 1)

\* loadEffect's second timer: the saved expressions are installed
RECURSIVE LoadExpressions(_, _, _)
LoadExpressions(st, exprs, i) ==
    IF i > Len(exprs.keys) THEN st
    ELSE LET name == exprs.keys[i]
             paramDef == getParameter(TheRegistry, name)
         IN  LoadExpressions(IF paramDef = Undefined THEN st
                             ELSE setExpression(st, paramDef.name, exprs.vals[name]),
                             exprs, i + 1)

\* loadEffect(effectData), up to the timers it leaves behind
loadEffect(st, effectData) ==
    [st EXCEPT !.widgetValue = RenderedWidgets,
               !.expressions = EmptyMap,
               !.references = EmptyMap,
               !.dependents = EmptyMap,
               !.timers = @ \o << [kind |-> "params", effect |-> effectData],
                                  [kind |-> "expressions", effect |-> effectData] >>]

\* the change handler of a slider's value input
SliderInput(def, text) ==
    Clamp(SliderMin(def).v, SliderMax(def).v, OrZero(ParseFloat(text)).v)

-----------------------------------------------------------------------------
(* CryEngineExporter *)

\* str.split(sep) for a one-character separator
RECURSIVE Split(_, _)
Split(s, sep) ==
    LET Cut(i) ==
            IF i = 0 THEN <<s>>
            ELSE <<SubSeq(s, 1, i - 1)>> \o Split(SubSeq(s, i + 1, Len(s)), sep)
    IN  Cut(IndexOf(s, sep, 1))

\* array.join(sep)
RECURSIVE Join(_, _)
Join(parts, sep) ==
    IF parts = << >> THEN ""
    ELSE IF Len(parts) = 1 THEN parts[1]
    ELSE parts[1] \o sep \o Join(Tail(parts), sep)

\* how many characters of s parseFloat reads
NumericLength(s) ==
    LET Fraction(i) ==
            IF i <= Len(s) /\ Ch(s, i) = "." THEN i + DigitRun(s, i + 1) ELSE i - 1
        Digits(i0) == Fraction(i0 + DigitRun(s, i0))
    IN  Digits(IF s # "" /\ Ch(s, 1) = "-" THEN 2 ELSE 1)

\* Number(s): blank is 0, a numeric literal is its value, any other text NaN
Number(s) ==
    LET Convert(t) ==
            IF t = "" THEN Num(0)
            ELSE IF NumericLength(t) = Len(t) THEN ParseFloat(t)
            ELSE NaN
    IN  Convert(Trim(s))

\* defaultValue.split(',') where the <Param> node has no default attribute:
\* null has no split, a TypeError
ThrowsOnDefault(definition) ==
    definition.type = "vec3" /\ "default" \in definition.absent

\* generateParamsAttributes: the default of the definition, converted from
\* the XML string by the declared type
CoerceDefault(definition) ==
    CASE definition.type \in {"float", "int"} -> ParseFloat(definition.default)
      [] definition.type = "bool" -> Bool(definition.default = "true")
      [] definition.type = "vec3" ->
            Vec([i \in DOMAIN Split(definition.default, ",") |->
                    Number(Split(definition.default, ",")[i])])
      [] OTHER -> Str(definition.default)

\* JSON.stringify of one character of a string
JSONChar(c) == IF c = "\"" THEN "\\\"" ELSE IF c = "\\" THEN "\\\\" ELSE c

RECURSIVE JSONChars(_)
JSONChars(s) ==
    IF s = "" THEN "" ELSE JSONChar(Ch(s, 1)) \o JSONChars(SubSeq(s, 2, Len(s)))

\* JSON.stringify of a number: NaN is written null
JSONNumber(value) == IF value = NaN THEN "null" ELSE NumToString(value.v)

\* JSON.stringify(value)
JSONStringify(value) ==
    CASE value.t = "str" -> "\"" \o JSONChars(value.v) \o "\""
      [] value.t = "bool" -> IF value.v THEN "true" ELSE "false"
      [] value.t = "vec" ->
            "[" \o Join([i \in DOMAIN value.v |-> JSONNumber(value.v[i])], ",") \o "]"
      [] value.t = "rgb" ->
            "{\"r\":" \o ToString(value.r) \o ",\"g\":" \o ToString(value.g)
              \o ",\"b\":" \o ToString(value.b) \o "}"
      [] OTHER -> JSONNumber(value)

\* escapeXML: the replacement of one character
EscapeChar(c) ==
    CASE c = "<" -> "&lt;"
      [] c = ">" -> "&gt;"
      [] c = "&" -> "&amp;"
      [] c = "'" -> "&apos;"
      [] c = "\"" -> "&quot;"
      [] OTHER -> c

\* escapeXML(str) for a string
RECURSIVE escapeXML(_)
escapeXML(str) ==
    IF str = "" THEN ""
    ELSE EscapeChar(Ch(str, 1)) \o escapeXML(SubSeq(str, 2, Len(str)))

HexChars == DigitChars \cup {"a", "b", "c", "d", "e", "f", "A", "B", "C", "D", "E", "F"}

\* the value of one hexadecimal digit
HexVal(c) ==
    IF c \in DigitChars THEN DigitVal(c)
    ELSE 9 + IndexOf("abcdef", LowerCh(c), 1)

\* parseInt(pair, 16) for the two characters of hex at i
HexPair(hex, i) == 16 * HexVal(Ch(hex, i)) + HexVal(Ch(hex, i + 1))

\* hexToRgb(hex) for a text that starts with '#': six hexadecimal digits
\* give the three channels, any other text gives white
hexToRgb(hex) ==
    IF Len(hex) = 7 /\ \A i \in 2..7 : Ch(hex, i) \in HexChars
    THEN Rgb(HexPair(hex, 2), HexPair(hex, 4), HexPair(hex, 6))
    ELSE Rgb(255, 255, 255)

ChannelTextMutBy256(c) ==
    ToString(((2000 * c + 256) \div 512) \div 1000)
      \o "." \o PadDigits(((2000 * c + 256) \div 512) % 1000, 3)

\* (c / 255).toFixed(3)
ChannelText(c) ==
    ToString(((2000 * c + 255) \div 510) \div 1000)
      \o "." \o PadDigits(((2000 * c + 255) \div 510) % 1000, 3)

\* formatValue: a colour object
FormatColor(value) ==
    ChannelText(value.r) \o "," \o ChannelText(value.g) \o "," \o ChannelText(value.b)

\* Number.isInteger(v) ? v.toString() : v.toFixed(3)
FormatNumber(value) ==
    IF value = NaN THEN "NaN"
    ELSE IF value.v % NumScale = 0 THEN NumToString(value.v)
    ELSE ToFixed(value.v, 3)

formatValueMutAllFixed(value) ==
    CASE value.t = "str" ->
            IF value.v # "" /\ Ch(value.v, 1) = "#" THEN FormatColor(hexToRgb(value.v))
            ELSE escapeXML(value.v)
      [] value.t = "bool" -> IF value.v THEN "true" ELSE "false"
      [] value.t = "vec" ->
            Join([i \in DOMAIN value.v |-> ToFixed(value.v[i].v, 3)], ",")
      [] value.t = "rgb" -> FormatColor(value)
      [] OTHER -> ToFixed(value.v, 3)

\* formatValue(value)
formatValue(value) ==
    CASE value.t = "str" ->
            IF value.v # "" /\ Ch(value.v, 1) = "#" THEN FormatColor(hexToRgb(value.v))
            ELSE escapeXML(value.v)
      [] value.t = "bool" -> IF value.v THEN "true" ELSE "false"
      [] value.t = "vec" ->
            Join([i \in DOMAIN value.v |-> FormatNumber(value.v[i])], ",")
      [] value.t = "rgb" -> FormatColor(value)
      [] OTHER -> FormatNumber(value)

\* One attribute of <Params>. key and kind say which entry of the effect it
\* was written for; they are not part of the output.
Attribute(kind, key, name, value) ==
    [kind |-> kind, key |-> key, name |-> name, value |-> value]

ParamAttributeMutAlways(definition, all, paramName, currentValue) ==
    << Attribute("param", paramName, escapeXML(definition.name),
                 formatValue(currentValue)) >>

ParamAttributeMutOnlyChanged(definition, all, paramName, currentValue) ==
    IF JSONStringify(currentValue) # JSONStringify(CoerceDefault(definition))
    THEN << Attribute("param", paramName, escapeXML(definition.name),
                      formatValue(currentValue)) >>
    ELSE << >>

ParamAttributeMutLabelName(definition, all, paramName, currentValue) ==
    IF JSONStringify(currentValue) # JSONStringify(CoerceDefault(definition)) \/ all
    THEN << Attribute("param", paramName, escapeXML(definition.label),
                      formatValue(currentValue)) >>
    ELSE << >>

\* generateParamsAttributes: the body of the loop over params for an entry
\* whose name resolves to definition. Where the conversion of the default
\* throws, the entry is marked: the caller returns no text.
ParamAttribute(definition, all, paramName, currentValue) ==
    IF ThrowsOnDefault(definition)
    THEN << Attribute("TypeError", paramName, "", "") >>
    ELSE IF JSONStringify(currentValue) # JSONStringify(CoerceDefault(definition)) \/ all
    THEN << Attribute("param", paramName, escapeXML(definition.name),
                      formatValue(currentValue)) >>
    ELSE << >>

RECURSIVE ParamAttributesMutWriteUnknown(_, _, _, _)
ParamAttributesMutWriteUnknown(reg, all, params, i) ==
    IF i > Len(params.keys) THEN << >>
    ELSE (IF getParameter(reg, params.keys[i]) = Undefined
          THEN << Attribute("param", params.keys[i], escapeXML(params.keys[i]),
                            formatValue(params.vals[params.keys[i]])) >>
          ELSE ParamAttribute(getParameter(reg, params.keys[i]), all,
                              params.keys[i], params.vals[params.keys[i]]))
           \o ParamAttributesMutWriteUnknown(reg, all, params, i + 1)

\* generateParamsAttributes: the loop over Object.entries(params)
RECURSIVE ParamAttributes(_, _, _, _)
ParamAttributes(reg, all, params, i) ==
    IF i > Len(params.keys) THEN << >>
    ELSE (IF getParameter(reg, params.keys[i]) = Undefined THEN << >>
          ELSE ParamAttribute(getParameter(reg, params.keys[i]), all,
                              params.keys[i], params.vals[params.keys[i]]))
           \o ParamAttributes(reg, all, params, i + 1)

\* generateParamsAttributes: the loop over Object.entries(expressions)
RECURSIVE ExpressionAttributes(_, _, _)
ExpressionAttributes(reg, exprs, i) ==
    IF i > Len(exprs.keys) THEN << >>
    ELSE << Attribute("expression", exprs.keys[i],
                      escapeXML(IF getParameter(reg, exprs.keys[i]) = Undefined
                                THEN exprs.keys[i]
                                ELSE getParameter(reg, exprs.keys[i]).name),
                      escapeXML(exprs.vals[exprs.keys[i]])) >>
           \o ExpressionAttributes(reg, exprs, i + 1)

\* generateParamsAttributes: the attributes in the order they are appended
AttributeList(reg, all, effect) ==
    << Attribute("fixed", "", "Inheritance", "System"),
       Attribute("fixed", "", "ParticleSystem", "RParticleGPU") >>
      \o ParamAttributes(reg, all, effect.params, 1)
      \o ExpressionAttributes(reg, effect.expressions, 1)

\* attrs += ` ${name}="${value}"`
RECURSIVE AttributeText(_)
AttributeText(attrs) ==
    IF attrs = << >> THEN ""
    ELSE " " \o Head(attrs).name \o "=\"" \o Head(attrs).value \o "\""
           \o AttributeText(Tail(attrs))

\* generateParamsAttributes(effect)
generateParamsAttributes(reg, all, effect) ==
    AttributeText(AttributeList(reg, all, effect))

\* effect.name || effect.effectName || 'Unnamed_Effect': the effects of the
\* library carry no effectName
EffectName(effect) == IF effect.name # "" THEN effect.name ELSE "Unnamed_Effect"

generateParticleXMLMutGuidInParams(reg, all, effect, guid) ==
    [guid |-> guid,
     attrs |-> Append(AttributeList(reg, all, effect),
                      Attribute("fixed", "", "GUID", guid)),
     text |-> " <Particles Name=\"" \o escapeXML(EffectName(effect))
                \o "\" GUID=\"" \o guid \o "\">\n  <Params"
                \o generateParamsAttributes(reg, all, effect)
                \o "/>\n </Particles>\n"]

\* generateParticleXML(effect) with the GUID generateGUID() returned: the
\* text, and beside it the attributes the text holds; no text when
\* generateParamsAttributes throws
generateParticleXML(reg, all, effect, guid) ==
    IF \E k \in Range(effect.params.keys) :
          getParameter(reg, k) # Undefined /\ ThrowsOnDefault(getParameter(reg, k))
    THEN [thrown |-> "TypeError"]
    ELSE
    [guid |-> guid,
     attrs |-> AttributeList(reg, all, effect),
     text |-> " <Particles Name=\"" \o escapeXML(EffectName(effect))
                \o "\" GUID=\"" \o guid \o "\">\n  <Params"
                \o generateParamsAttributes(reg, all, effect)
                \o "/>\n </Particles>\n"]

-----------------------------------------------------------------------------
(* The export of the library: validateEffect, gatherEffectData, the file *)

\* the number a value is converted to by a comparison with a number
ToNumeric(value) ==
    CASE value.t = "num" -> value
      [] value.t = "bool" -> IF value.v THEN Whole(1) ELSE Whole(0)
      [] value.t = "str" -> Number(value.v)
      [] value.t = "vec" ->
            Number(Join([i \in DOMAIN value.v |->
                            IF value.v[i] = NaN THEN "NaN"
                            ELSE NumToString(value.v[i].v)], ","))
      [] OTHER -> NaN

validateEffectMutLifetimeBelowZero(effect) ==
    LET Compared(key) ==
            IF key \in DOMAIN effect.params.vals
            THEN ToNumeric(effect.params.vals[key]) ELSE NaN
    IN  (IF effect.name = "" THEN <<"Effect must have a name">> ELSE << >>)
          \o (IF Compared("fParticleLifeTime") # NaN
                    /\ Compared("fParticleLifeTime").v < 0
              THEN <<"Lifetime must be greater than 0">> ELSE << >>)
          \o (IF Compared("fCount") # NaN /\ Compared("fCount").v < 0
              THEN <<"Count cannot be negative">> ELSE << >>)

\* validateEffect(effect): the effects of the library carry no effectName.
\* Compared(key) is what params[key] is compared as, NaN (which compares
\* false) when params[key] is undefined.
validateEffect(effect) ==
    LET Compared(key) ==
            IF key \in DOMAIN effect.params.vals
            THEN ToNumeric(effect.params.vals[key]) ELSE NaN
    IN  (IF effect.name = "" THEN <<"Effect must have a name">> ELSE << >>)
          \o (IF Compared("fParticleLifeTime") # NaN
                    /\ Compared("fParticleLifeTime").v <= 0
              THEN <<"Lifetime must be greater than 0">> ELSE << >>)
          \o (IF Compared("fCount") # NaN /\ Compared("fCount").v < 0
              THEN <<"Count cannot be negative">> ELSE << >>)

RECURSIVE traverseLibraryItemsMutChildrenFirst(_)
traverseLibraryItemsMutChildrenFirst(items) ==
    IF items = << >> THEN << >>
    ELSE (CASE Head(items).type = "effect" ->
                 traverseLibraryItemsMutChildrenFirst(Head(items).items)
                   \o <<Head(items).id>>
            [] Head(items).type = "folder" ->
                 traverseLibraryItemsMutChildrenFirst(Head(items).items)
            [] OTHER -> << >>)
           \o traverseLibraryItemsMutChildrenFirst(Tail(items))

\* traverseLibraryItems(items, effects): the effects pushed, in order, each
\* named by the identity of the library item whose params and expressions
\* its effectData refers to
RECURSIVE traverseLibraryItems(_)
traverseLibraryItems(items) ==
    IF items = << >> THEN << >>
    ELSE (CASE Head(items).type = "effect" ->
                 <<Head(items).id>> \o traverseLibraryItems(Head(items).items)
            [] Head(items).type = "folder" ->
                 traverseLibraryItems(Head(items).items)
            [] OTHER -> << >>)
           \o traverseLibraryItems(Tail(items))

\* gatherEffectData(): an effect can only be selected from the library, so
\* the branch for an empty list with a root effect is never taken
gatherEffectData(lib) ==
    IF lib = Undefined THEN << >> ELSE traverseLibraryItems(lib.items)

\* replace(/[\/]/g, '_').replace(/[^a-zA-Z0-9_-]/g, '_')
RECURSIVE CleanChars(_)
CleanChars(s) ==
    IF s = "" THEN ""
    ELSE (IF Ch(s, 1) \in LowerChars \cup UpperChars \cup DigitChars \cup {"_", "-"}
          THEN Ch(s, 1) ELSE "_")
           \o CleanChars(SubSeq(s, 2, Len(s)))

\* str.endsWith(suffix)
EndsWith(s, suffix) ==
    Len(s) >= Len(suffix)
      /\ SubSeq(s, Len(s) - Len(suffix) + 1, Len(s)) = suffix

\* exportLibrary: cleanName
CleanName(libraryName) ==
    CleanChars(IF EndsWith(libraryName, ".vfxlib")
               THEN SubSeq(libraryName, 1, Len(libraryName) - 7)
               ELSE libraryName)

promptForFilenameMutAsTyped(text) ==
    IF Trim(text) = "" THEN Undefined ELSE [filename |-> Trim(text)]

\* promptForFilename: what the dialog resolves to when text is confirmed;
\* a blank text resolves nothing and the dialog stays
promptForFilename(text) ==
    IF Trim(text) = "" THEN Undefined
    ELSE [filename |-> IF EndsWith(Trim(text), ".xml") THEN Trim(text)
                       ELSE Trim(text) \o ".xml"]

\* the texts of the <Particles> elements, in order
RECURSIVE ParticlesText(_)
ParticlesText(particles) ==
    IF particles = << >> THEN ""
    ELSE Head(particles).element.text \o ParticlesText(Tail(particles))

\* generateCryEngineXML(libraryData, effectsData), guids[i] being the GUID of
\* the i-th effect: the text, and beside it its <Particles> elements with
\* the effect each was written for; no text when an element throws
generateCryEngineXML(reg, all, libraryName, ids, store, guids) ==
    LET Document(particles) ==
            IF \E i \in DOMAIN particles :
                  particles[i].element = [thrown |-> "TypeError"]
            THEN [thrown |-> "TypeError"]
            ELSE
            [particles |-> particles,
             text |-> "<?xml version=\"1.0\" encoding=\"UTF-8\"?>\n"
                        \o "<ParticleLibrary Name=\"" \o escapeXML(libraryName)
                        \o "\" SandboxVersion=\"1.0.151.20733\" ParticleVersion=\"53\">\n"
                        \o ParticlesText(particles)
                        \o "</ParticleLibrary>\n"]
    IN  Document([i \in DOMAIN ids |->
                     [effect |-> ids[i],
                      element |-> generateParticleXML(reg, all, store[ids[i]],
                                                      guids[i])]])

-----------------------------------------------------------------------------
(* Actions of the registry *)

\* The application objects are not built yet.
\* The library the editor holds: the sample library, whose one effect is e1.
SampleLibrary ==
    [name |-> "Ships/Thrusters.vfxlib",
     items |-> << [type |-> "effect", id |-> "e1", items |-> << >>] >>]

\* No export has been asked for.
NoExportRequest ==
    /\ exportPrompt = Undefined
    /\ download = Undefined
    /\ notifications = << >>

NoApplication ==
    /\ widgetValue = EmptyMap
    /\ expressions = EmptyMap
    /\ references = EmptyMap
    /\ dependents = EmptyMap
    /\ timers = << >>
    /\ effects = EmptyMap
    /\ selectedEffect = "null"
    /\ events = << >>
    /\ consoleErrors = << >>
    /\ lastCall = [op |-> "constructor"]
    /\ exportAllParameters = FALSE
    /\ xml = Undefined
    /\ currentLibrary = Undefined
    /\ NoExportRequest

InitRegistry ==
    /\ parameterGroups = << >>
    /\ parameterMap = EmptyMap
    /\ parameterByLabel = EmptyMap
    /\ aliases = EmptyMap
    /\ loadResult = "none"
    /\ renderMode = "undefined"
    /\ NoCheckpoints
    /\ NoApplication

\* loadDefinitions(xmlPath) on a document that is fetched and parsed.
LoadDefinitions(doc) ==
    /\ loadResult = "none"
    /\ LET reg == ParseGroups(TheRegistry, doc)
       IN  /\ parameterGroups' = reg.parameterGroups
           /\ parameterMap' = reg.parameterMap
           /\ parameterByLabel' = reg.parameterByLabel
           /\ aliases' = reg.aliases
    /\ loadResult' = "groups"
    /\ renderMode' = renderMode
    /\ UNCHANGED <<cpVars, mgrVars, appVars, logVars, expVars, libVars>>

\* loadDefinitions(xmlPath) when the try block throws. With k = 0 the fetch
\* is rejected or the response is not OK; with k > 0 the document is doc with
\* the name attribute of its k-th <Group> removed, so that
\* getAttribute('name').toLowerCase() throws for that node after the groups
\* before it were read. The catch logs and returns [].
LoadDefinitionsThrows(doc, k) ==
    /\ loadResult = "none"
    /\ LET reg == ParseGroups(TheRegistry, SubSeq(doc, 1, k - 1))
       IN  /\ parameterGroups' = reg.parameterGroups
           /\ parameterMap' = reg.parameterMap
           /\ parameterByLabel' = reg.parameterByLabel
           /\ aliases' = reg.aliases
    /\ loadResult' = "empty"
    /\ renderMode' = renderMode
    /\ UNCHANGED <<cpVars, mgrVars, appVars, logVars, expVars, libVars>>

NextRegistry ==
    \/ \E doc \in Documents : LoadDefinitions(doc)
    \/ \E doc \in Documents : \E k \in 0..Len(doc) : LoadDefinitionsThrows(doc, k)

SpecRegistry == InitRegistry /\ [][NextRegistry]_vars

-----------------------------------------------------------------------------
(* The full parser: the tables of the class, indexed under a render mode *)

isGroupVisible(mode, group) ==
    IF group.visible = "" \/ group.visible = "All" THEN TRUE
    ELSE IF group.visible = "None" THEN FALSE
    ELSE IF mode = "All" THEN TRUE
    ELSE group.visible = mode

isParameterVisibleMutNoneShown(mode, param) ==
    IF param.visible = "" \/ param.visible = "All" THEN TRUE
    ELSE IF mode = "All" THEN TRUE
    ELSE param.visible = mode

\* isParameterVisible(param) with this.renderMode = mode; a table entry
\* without the field has visible = ""
isParameterVisible(mode, param) ==
    IF param.visible = "" \/ param.visible = "All" THEN TRUE
    ELSE IF param.visible = "None" THEN FALSE
    ELSE IF mode = "All" THEN TRUE
    ELSE param.visible = mode

\* buildParameterMap(): Index folds the two forEach loops over the tables
\* from group gi, parameter pi on. The tables hold no dependencies and no
\* alias; visibilityRules is not modelled.
buildParameterMap(reg, mode) ==
    LET RECURSIVE Index(_, _, _)
        Index(r, gi, pi) ==
            IF gi > Len(r.parameterGroups) THEN r
            ELSE IF ~isGroupVisible(mode, r.parameterGroups[gi])
                      \/ pi > Len(r.parameterGroups[gi].parameters)
            THEN Index(r, gi + 1, 1)
            ELSE IF ~isParameterVisible(mode, r.parameterGroups[gi].parameters[pi])
            THEN Index(r, gi, pi + 1)
            ELSE Index([r EXCEPT
                          !.parameterMap =
                              MapSet(@, r.parameterGroups[gi].parameters[pi].name,
                                     [param |-> r.parameterGroups[gi].parameters[pi],
                                      groupId |-> r.parameterGroups[gi].id]),
                          !.parameterByLabel =
                              MapSet(@, r.parameterGroups[gi].parameters[pi].label,
                                     [param |-> r.parameterGroups[gi].parameters[pi],
                                      groupId |-> r.parameterGroups[gi].id])],
                       gi, pi + 1)
    IN  Index(reg, 1, 1)

\* The tables createSpawnGroup() ... createAudioGroup() return, cut down to
\* two groups of two and one parameters with the declared visibilities of
\* the class ("" for a table entry that declares none).
GroupTables ==
    LET Declared == {"", "All", "None", "RParticleGPU", "CryEngine"}
        Param(name, label, visible) ==
            [name |-> name, label |-> label, visible |-> visible]
    IN  { << [id |-> "spawn", title |-> "Spawn", visible |-> v[1],
              collapsed |-> FALSE,
              parameters |-> << Param("guid", "GUID", v[2]),
                                Param("fCount", "Count", v[3]) >>],
             [id |-> "gpu", title |-> "Emitter GPU", visible |-> v[4],
              collapsed |-> TRUE,
              parameters |-> << Param("fCount", "GPU Count", v[2]) >>] >>
          : v \in [1..4 -> Declared] }

\* parse(renderMode) on a new parser whose group methods return `tables`
Parse(mode, tables) ==
    /\ loadResult = "none"
    /\ LET reg == buildParameterMap([TheRegistry EXCEPT !.parameterGroups = tables],
                                    mode)
       IN  /\ parameterGroups' = reg.parameterGroups
           /\ parameterMap' = reg.parameterMap
           /\ parameterByLabel' = reg.parameterByLabel
           /\ aliases' = reg.aliases
    /\ renderMode' = mode
    /\ loadResult' = "groups"
    /\ lastCall' = [op |-> "parse"]
    /\ UNCHANGED <<cpVars, mgrVars, appVars, events, consoleErrors, expVars, libVars>>

\* isGroupVisible(group) or isParameterVisible(param) called on an entry of
\* the tables: pi = 0 for the group itself
CheckVisible(gi, pi) ==
    /\ gi \in DOMAIN parameterGroups
    /\ pi \in 0..Len(parameterGroups[gi].parameters)
    /\ lastCall' =
         [op |-> "isVisible", group |-> gi, parameter |-> pi,
          result |-> IF pi = 0 THEN isGroupVisible(renderMode, parameterGroups[gi])
                     ELSE isParameterVisible(renderMode,
                                             parameterGroups[gi].parameters[pi])]
    /\ UNCHANGED <<cpVars, regVars, mgrVars, appVars, events, consoleErrors, expVars, libVars>>

NextVisibility ==
    \/ \E mode \in {"All", "RParticleGPU", "CryEngine", "None"}, tables \in GroupTables :
          Parse(mode, tables)
    \/ \E gi \in 1..2, pi \in 0..2 : CheckVisible(gi, pi)

SpecVisibility == InitRegistry /\ [][NextVisibility]_vars

-----------------------------------------------------------------------------
(* Actions of the editor *)

\* The state a handler starts from: the console and the event log are per
\* handler.
Current ==
    [widgetValue |-> widgetValue, expressions |-> expressions,
     references |-> references, dependents |-> dependents, timers |-> timers,
     effects |-> effects, selectedEffect |-> selectedEffect,
     events |-> << >>, consoleErrors |-> << >>]

\* The state a handler leaves.
Commit(st) ==
    /\ widgetValue' = st.widgetValue
    /\ expressions' = st.expressions
    /\ references' = st.references
    /\ dependents' = st.dependents
    /\ timers' = st.timers
    /\ effects' = st.effects
    /\ selectedEffect' = st.selectedEffect
    /\ events' = st.events
    /\ consoleErrors' = st.consoleErrors

\* VFXEditor.init(): the schema is loaded, the rows are rendered, the library
\* holds the sample effects and none is selected.
Init ==
    /\ LET reg == ParseGroups(NewRegistry, StdDocument)
       IN  /\ parameterGroups = reg.parameterGroups
           /\ parameterMap = reg.parameterMap
           /\ parameterByLabel = reg.parameterByLabel
           /\ aliases = reg.aliases
           /\ widgetValue =
                [n \in {d.name : d \in Range(FlattenGroups(reg.parameterGroups))} |->
                    SliderInitial(getParameter(reg, n))]
    /\ loadResult = "groups"
    /\ renderMode = "undefined"
    /\ NoCheckpoints
    /\ expressions = EmptyMap
    /\ references = EmptyMap
    /\ dependents = EmptyMap
    /\ timers = << >>
    /\ effects = SampleEffects
    /\ selectedEffect = "null"
    /\ events = << >>
    /\ consoleErrors = << >>
    /\ lastCall = [op |-> "init"]
    /\ exportAllParameters = FALSE
    /\ xml = Undefined
    /\ currentLibrary = SampleLibrary
    /\ NoExportRequest

\* A click on an effect of the library: selectEffect(effectData, root).
SelectEffect(e) ==
    /\ Len(timers) + 2 <= MaxTimers
    /\ Commit(loadEffect([Current EXCEPT !.selectedEffect = e], e))
    /\ lastCall' = [op |-> "loadEffect", effect |-> e]
    /\ UNCHANGED <<cpVars, regVars, expVars, libVars>>

\* The oldest pending timer of loadEffect fires.
TimerFires ==
    /\ timers # << >>
    /\ LET timer == Head(timers)
           effectData == effects[timer.effect]
           st == [Current EXCEPT !.timers = Tail(timers)]
       IN  Commit(IF timer.kind = "params"
                  THEN LoadParams(st, effectData.params, 1)
                  ELSE LoadExpressions(st, effectData.expressions, 1))
    /\ lastCall' = [op |-> "timer", kind |-> Head(timers).kind,
                    effect |-> Head(timers).effect]
    /\ UNCHANGED <<cpVars, regVars, expVars, libVars>>

\* The user types a value into a slider's input: the widget clamps and shows
\* it, then calls handleValueChange(param.name, val).
SliderChange(p, text) ==
    /\ p \in DOMAIN widgetValue
    /\ LET def == getParameter(TheRegistry, p)
           val == SliderInput(def, text)
           shown == [Current EXCEPT !.widgetValue[p] = SliderText(def, val)]
       IN  /\ Commit(handleValueChange(shown, p, Num(val)))
           /\ lastCall' = [op |-> "handleValueChange", name |-> p, value |-> Num(val)]
    /\ UNCHANGED <<cpVars, regVars, expVars, libVars>>

\* Context menu, "Edit Expression": editExpression(param.name) with a prompt
\* answered by a non-blank text.
EditExpression(p, text) ==
    /\ p \in DOMAIN widgetValue
    /\ Commit(setExpression(Current, p, Trim(text)))
    /\ lastCall' = [op |-> "setExpression", name |-> p, expression |-> Trim(text)]
    /\ UNCHANGED <<cpVars, regVars, expVars, libVars>>

\* Context menu, "Clear Expression": offered on a row that has one.
ClearExpression(p) ==
    /\ p \in DOMAIN widgetValue
    /\ MapHas(expressions, p)
    /\ Commit(clearExpression(Current, p))
    /\ lastCall' = [op |-> "clearExpression", name |-> p]
    /\ UNCHANGED <<cpVars, regVars, expVars, libVars>>

\* The reset button of a row: resetParameter(param).
ResetParameter(p) ==
    /\ p \in DOMAIN widgetValue
    /\ Commit(resetParameter(Current, getParameter(TheRegistry, p)))
    /\ lastCall' = [op |-> "resetParameter", name |-> p,
                    bound |-> MapHas(expressions, p)]
    /\ UNCHANGED <<cpVars, regVars, expVars, libVars>>

Next ==
    \/ \E e \in DOMAIN effects : SelectEffect(e)
    \/ TimerFires
    \/ \E edit \in SliderEdits : SliderChange(edit[1], edit[2])
    \/ \E edit \in ExpressionEdits : EditExpression(edit[1], edit[2])
    \/ \E p \in DOMAIN widgetValue : ClearExpression(p)
    \/ \E p \in DOMAIN widgetValue : ResetParameter(p)

Spec == Init /\ [][Next]_vars

-----------------------------------------------------------------------------
(* The editor with a chain of three rows *)

\* parameters.xml with three slider parameters, so that an expression can
\* read a row that itself has an expression.
ChainDocument ==
    << [name |-> "Spawn",
        params |->
          << [name |-> "A", label |-> "LA", type |-> "float", default |-> "1",
              widget |-> "slider", min |-> "0", max |-> "10", step |-> "1",
              node |-> 1, absent |-> {}],
             [name |-> "B", label |-> "LB", type |-> "float", default |-> "2.5",
              widget |-> "slider", min |-> "0", max |-> "20", step |-> "0.5",
              node |-> 2, absent |-> {}],
             [name |-> "C", label |-> "LC", type |-> "float", default |-> "5",
              widget |-> "slider", min |-> "0", max |-> "100", step |-> "1",
              node |-> 3, absent |-> {}] >>] >>

\* VFXEditor.init() with the schema `document` and the library `store`
InitEditor(document, store) ==
    /\ LET reg == ParseGroups(NewRegistry, document)
       IN  /\ parameterGroups = reg.parameterGroups
           /\ parameterMap = reg.parameterMap
           /\ parameterByLabel = reg.parameterByLabel
           /\ aliases = reg.aliases
           /\ widgetValue =
                [n \in {d.name : d \in Range(FlattenGroups(reg.parameterGroups))} |->
                    SliderInitial(getParameter(reg, n))]
    /\ loadResult = "groups"
    /\ renderMode = "undefined"
    /\ NoCheckpoints
    /\ expressions = EmptyMap
    /\ references = EmptyMap
    /\ dependents = EmptyMap
    /\ timers = << >>
    /\ effects = store
    /\ selectedEffect = "null"
    /\ events = << >>
    /\ consoleErrors = << >>
    /\ lastCall = [op |-> "init"]
    /\ exportAllParameters = FALSE
    /\ xml = Undefined
    /\ currentLibrary = SampleLibrary
    /\ NoExportRequest

InitChain == InitEditor(ChainDocument, SampleEffects)

\* The chain B <- A, C <- B, a row that reads itself and the edge that
\* closes the cycle A <- C.
ChainEdits ==
    { <<"B", "${A} * 2">>, <<"C", "${B} + 1">>, <<"C", "${C}">>,
      <<"A", "${C}">> }

NextChain ==
    \/ \E edit \in {<<"A", "3">>, <<"B", "4">>} : SliderChange(edit[1], edit[2])
    \/ \E edit \in ChainEdits : EditExpression(edit[1], edit[2])
    \/ \E p \in DOMAIN widgetValue : ClearExpression(p)
    \/ \E p \in DOMAIN widgetValue : ResetParameter(p)

SpecChain == InitChain /\ [][NextChain]_vars

-----------------------------------------------------------------------------
(* The editor with two effects, clicked in quick succession *)

\* Two effect items of the library with different expressions
TwoEffects ==
    [e1 |-> [name |-> "Thruster_Main",
             params |-> ObjOf(<<"A">>, <<Whole(3)>>),
             expressions |-> ObjOf(<<"LB", "zz">>, <<"${A} * 2", "${A}">>)],
     e2 |-> [name |-> "Smoke",
             params |-> ObjOf(<<"B">>, <<Whole(4)>>),
             expressions |-> ObjOf(<<"A">>, <<"${B}">>)]]

InitReload == InitEditor(StdDocument, TwoEffects)

\* A click on an effect while the timers of an earlier click are pending
SelectEffectEarly(e) ==
    /\ timers # << >>
    /\ Len(timers) + 2 <= 2 * MaxTimers
    /\ Commit(loadEffect([Current EXCEPT !.selectedEffect = e], e))
    /\ lastCall' = [op |-> "loadEffect", effect |-> e]
    /\ UNCHANGED <<cpVars, regVars, expVars, libVars>>

NextReload ==
    \/ \E e \in DOMAIN effects : SelectEffect(e)
    \/ \E e \in DOMAIN effects : SelectEffectEarly(e)
    \/ TimerFires
    \/ EditExpression("B", "${B}")

SpecReload == InitReload /\ [][NextReload]_vars

-----------------------------------------------------------------------------
(* CheckpointManager: the manager as the record cp of its two fields and of *)
(* the values the parameter rows show                                        *)

\* this.maxCheckpoints
maxCheckpoints == 10

\* the key of a slot: (n).toString()
SlotKey(n) == NumToString(n * NumScale)

\* captureState(): the rows are sliders; the timestamp is left out
captureState(rows) ==
    [parameters |->
        [n \in DOMAIN rows |->
            [type |-> "slider", value |-> OrZero(ParseFloat(rows[n]))]]]

\* applyState(state): sliderValue.value = value for each saved row found
applyState(rows, state) ==
    [n \in DOMAIN rows |->
        IF n \in DOMAIN state.parameters
        THEN NumToString(state.parameters[n].value.v)
        ELSE rows[n]]

\* !this.checkpoints[slot]
SlotEmpty(cp, slot) ==
    ~MapHas(cp.checkpoints, slot) \/ cp.checkpoints[slot] = Null

\* createCheckpoint(slot)
createCheckpoint(cp, slot) ==
    [cp EXCEPT !.checkpoints =
        MapSet(@, slot, [name |-> "Checkpoint " \o slot, slot |-> slot,
                         state |-> captureState(cp.rows)])]

\* loadCheckpoint(slot)
loadCheckpoint(cp, slot) ==
    IF SlotEmpty(cp, slot) THEN cp
    ELSE [cp EXCEPT !.rows = applyState(@, cp.checkpoints[slot].state),
                    !.currentCheckpoint = slot]

deleteCheckpointMutKeepCurrent(cp, slot) ==
    IF SlotEmpty(cp, slot) THEN cp
    ELSE [cp EXCEPT !.checkpoints[slot] = Null]

\* deleteCheckpoint(slot)
deleteCheckpoint(cp, slot) ==
    IF SlotEmpty(cp, slot) THEN cp
    ELSE [cp EXCEPT !.checkpoints[slot] = Null,
                    !.currentCheckpoint = IF @ = slot THEN "null" ELSE @]

\* addCheckpointSlot(): maxExisting is Math.max(...existingSlots, 0)
addCheckpointSlot(cp) ==
    LET existingSlots == {ParseFloat(k).v \div NumScale : k \in DOMAIN cp.checkpoints}
        maxExisting == CHOOSE n \in existingSlots \cup {0} :
                           \A other \in existingSlots : other <= n
    IN  IF maxExisting < maxCheckpoints
        THEN [cp EXCEPT !.checkpoints = MapSet(@, SlotKey(maxExisting + 1), Null)]
        ELSE cp

\* The manager as a handler finds it
CurrentCheckpoints ==
    [checkpoints |-> checkpoints, currentCheckpoint |-> currentCheckpoint,
     rows |-> widgetValue]

\* The manager as a handler leaves it
CommitCheckpoints(cp, call) ==
    /\ checkpoints' = cp.checkpoints
    /\ currentCheckpoint' = cp.currentCheckpoint
    /\ widgetValue' = cp.rows
    /\ events' = << >>
    /\ consoleErrors' = << >>
    /\ lastCall' = call
    /\ UNCHANGED <<regVars, expressions, references, dependents, timers,
                   appVars, expVars, libVars>>

\* the slots the keys and the buttons name: "1" to "10"
SlotKeys == {SlotKey(n) : n \in 1..maxCheckpoints}

\* Ctrl+Shift+digit, a right click on a quick button or "Overwrite"
CreateCheckpoint(slot) ==
    /\ slot \in SlotKeys
    /\ CommitCheckpoints(createCheckpoint(CurrentCheckpoints, slot),
                         [op |-> "createCheckpoint", slot |-> slot])

\* loadCheckpoint(slot), whether the slot holds a checkpoint or not
LoadCheckpoint(slot) ==
    /\ slot \in SlotKeys
    /\ CommitCheckpoints(loadCheckpoint(CurrentCheckpoints, slot),
                         [op |-> "loadCheckpoint", slot |-> slot,
                          empty |-> SlotEmpty(CurrentCheckpoints, slot)])

\* "Delete" in the manager
DeleteCheckpoint(slot) ==
    /\ slot \in SlotKeys
    /\ CommitCheckpoints(deleteCheckpoint(CurrentCheckpoints, slot),
                         [op |-> "deleteCheckpoint", slot |-> slot,
                          current |-> currentCheckpoint = slot])

\* "Add Checkpoint Slot" in the manager
AddCheckpointSlot ==
    /\ \A k \in DOMAIN checkpoints : ParseFloat(k).v \div NumScale < MaxSlots
    /\ CommitCheckpoints(addCheckpointSlot(CurrentCheckpoints),
                         [op |-> "addCheckpointSlot"])

NextCheckpoints ==
    \/ \E n \in 1..MaxSlots : CreateCheckpoint(SlotKey(n))
    \/ \E n \in 1..MaxSlots : LoadCheckpoint(SlotKey(n))
    \/ \E n \in 1..MaxSlots : DeleteCheckpoint(SlotKey(n))
    \/ AddCheckpointSlot
    \/ \E text \in {"3", "10"} : SliderChange("A", text)

SpecCheckpoints == Init /\ [][NextCheckpoints]_vars

-----------------------------------------------------------------------------
(* The export of an effect *)

\* A schema with one definition of each type the exporter converts.
ExportDocument ==
    << [name |-> "Spawn",
        params |->
          << [name |-> "fParticleLifeTime", label |-> "Particle Life Time",
              type |-> "float", default |-> "1.0", widget |-> "slider",
              min |-> "0", max |-> "10", step |-> "0.1", node |-> 1, absent |-> {}],
             [name |-> "fCount", label |-> "Count", type |-> "int",
              default |-> "5", widget |-> "slider", min |-> "0",
              max |-> "100", step |-> "1", node |-> 2, absent |-> {}],
             [name |-> "bContinuous", label |-> "Continuous", type |-> "bool",
              default |-> "true", widget |-> "checkbox", min |-> "",
              max |-> "", step |-> "", node |-> 3, absent |-> {}] >>],
       [name |-> "Appearance",
        params |->
          << [name |-> "vDirection", label |-> "Direction", type |-> "vec3",
              default |-> "0,0,1", widget |-> "vector", min |-> "",
              max |-> "", step |-> "", node |-> 4, absent |-> {}],
             [name |-> "cColor", label |-> "Color", type |-> "color",
              default |-> "#ffffff", widget |-> "color", min |-> "",
              max |-> "", step |-> "", node |-> 5, absent |-> {}],
             [name |-> "sTexture", label |-> "Texture", type |-> "string",
              default |-> "", widget |-> "text", min |-> "", max |-> "",
              step |-> "", node |-> 6, absent |-> {}] >>] >>

\* The effect item the library holds when the export starts: empty, keyed by
\* a display label, or keyed by a name the schema does not know.
LibraryEffects ==
    { [name |-> "Thruster_Main", params |-> EmptyObj, expressions |-> EmptyObj],
      [name |-> "Smoke & Dust",
       params |-> ObjOf(<<"Particle Life Time">>, <<Num(40)>>),
       expressions |-> ObjOf(<<"Count", "zz">>, <<"${fCount} * 2", "1 < 2">>)],
      [name |-> "",
       params |-> ObjOf(<<"zz">>, <<Whole(1)>>),
       expressions |-> EmptyObj] }

\* The values the widgets and the expressions hand to the listener:
\* <<internal name, value>>. An expression may evaluate to NaN.
WidgetValues ==
    { <<"fParticleLifeTime", Whole(1)>>, <<"fParticleLifeTime", Num(40)>>,
      <<"fCount", Whole(5)>>, <<"fCount", Num(88)>>, <<"fCount", NaN>>,
      <<"bContinuous", Bool(TRUE)>>, <<"bContinuous", Bool(FALSE)>>,
      <<"vDirection", Vec(<<Whole(0), Whole(0), Whole(1)>>)>>,
      <<"vDirection", Vec(<<Whole(1), Num(40), Whole(0)>>)>>,
      <<"cColor", Str("#ffffff")>>, <<"cColor", Str("#ff0000")>>,
      <<"cColor", Str("#FF8833")>>, <<"cColor", Str("#f00")>>,
      <<"cColor", Rgb(255, 0, 0)>>, <<"cColor", Rgb(255, 100, 50)>>,
      <<"sTexture", Str("")>>, <<"sTexture", Str("a<b")>> }

\* What Math.random makes of generateGUID() in two calls
Guids == {"guid-1", "guid-2"}

\* The editor after init() with one effect of the library selected; the flag
\* of the exporter is the one its build was given.
InitExport ==
    /\ LET reg == ParseGroups(NewRegistry, ExportDocument)
       IN  /\ parameterGroups = reg.parameterGroups
           /\ parameterMap = reg.parameterMap
           /\ parameterByLabel = reg.parameterByLabel
           /\ aliases = reg.aliases
    /\ loadResult = "groups"
    /\ renderMode = "undefined"
    /\ NoCheckpoints
    /\ widgetValue = EmptyMap
    /\ expressions = EmptyMap
    /\ references = EmptyMap
    /\ dependents = EmptyMap
    /\ timers = << >>
    /\ \E effect \in LibraryEffects : effects = [e1 |-> effect]
    /\ selectedEffect = "e1"
    /\ events = << >>
    /\ consoleErrors = << >>
    /\ lastCall = [op |-> "init"]
    /\ exportAllParameters \in BOOLEAN
    /\ xml = Undefined
    /\ currentLibrary = SampleLibrary
    /\ NoExportRequest

\* A widget reports a value: the listener stores it in the selected effect.
ParameterChanged(name, value) ==
    /\ Len(ObjSet(effects[selectedEffect].params, name, value).keys) <= MaxEntries
    /\ effects' = onParameterChanged(Current, name, value).effects
    /\ xml' = Undefined
    /\ lastCall' = [op |-> "onParameterChanged", name |-> name, value |-> value]
    /\ UNCHANGED <<cpVars, regVars, widgetValue, expressions, references, dependents,
                   timers, selectedEffect, events, consoleErrors,
                   exportAllParameters, libVars>>

\* The export writes the selected effect; xml holds what it wrote until the
\* effect changes, lastCall.before the GUID of the text xml held before.
ExportEffect(guid) ==
    /\ xml' = generateParticleXML(TheRegistry, exportAllParameters,
                                  effects[selectedEffect], guid)
    /\ lastCall' = [op |-> "generateParticleXML",
                    before |-> IF xml = Undefined THEN "" ELSE xml.guid]
    /\ UNCHANGED <<cpVars, regVars, mgrVars, appVars, events, consoleErrors,
                   exportAllParameters, libVars>>

NextExport ==
    \/ \E change \in WidgetValues : ParameterChanged(change[1], change[2])
    \/ \E guid \in Guids : ExportEffect(guid)

SpecExport == InitExport /\ [][NextExport]_vars

-----------------------------------------------------------------------------
(* The export of the library *)

\* What Math.random makes of the calls of generateGUID() in one export: the
\* GUID of the i-th effect is the i-th of the run.
GuidRuns ==
    { <<"guid-1", "guid-2", "guid-1">>, <<"guid-2", "guid-1", "guid-2">> }

\* Menu, "Export": exportLibrary() up to the await of the filename dialog.
\* notifications holds the toasts of this request, lastCall.errors what
\* validateEffect returned for each gathered effect.
RequestExport ==
    /\ exportPrompt = Undefined
    /\ LET ids == gatherEffectData(currentLibrary)
           errors == [i \in DOMAIN ids |-> validateEffect(effects[ids[i]])]
           libraryName ==
               IF currentLibrary = Undefined \/ currentLibrary.name = ""
               THEN "Exported_Effects" ELSE currentLibrary.name
       IN  IF ids = << >>
           THEN /\ notifications' =
                     << [title |-> "Export Error", type |-> "error"] >>
                /\ exportPrompt' = Undefined
                /\ lastCall' = [op |-> "exportLibrary", result |-> "empty",
                                errors |-> << >>]
           ELSE /\ notifications' =
                     IF \E i \in DOMAIN errors : errors[i] # << >>
                     THEN << [title |-> "Export Warning", type |-> "warning"] >>
                     ELSE << >>
                /\ exportPrompt' =
                     [effects |-> ids, cleanName |-> CleanName(libraryName),
                      defaultFilename |-> CleanName(libraryName) \o ".xml"]
                /\ lastCall' = [op |-> "exportLibrary", result |-> "prompt",
                                errors |-> errors]
    /\ UNCHANGED <<cpVars, regVars, mgrVars, appVars, events, consoleErrors, expVars,
                   currentLibrary, download>>

\* The dialog's Export button or Enter with `text` in the input: a blank text
\* leaves the dialog open; any other resolves the promise and exportLibrary()
\* runs to its end, or to the exception the exporter throws.
ConfirmFilename(text, guids) ==
    /\ exportPrompt # Undefined
    /\ LET answer == promptForFilename(text)
           result == generateCryEngineXML(TheRegistry, exportAllParameters,
                                          exportPrompt.cleanName,
                                          exportPrompt.effects, effects, guids)
       IN  IF answer = Undefined
           THEN /\ lastCall' = [op |-> "confirm", text |-> text,
                                result |-> "ignored"]
                /\ UNCHANGED <<libVars, xml>>
           ELSE IF result = [thrown |-> "TypeError"]
           THEN /\ lastCall' = [op |-> "confirm", text |-> text,
                                result |-> "thrown"]
                /\ exportPrompt' = Undefined
                /\ xml' = Undefined
                /\ UNCHANGED <<currentLibrary, download, notifications>>
           ELSE /\ lastCall' = [op |-> "confirm", text |-> text,
                                result |-> "downloaded"]
                /\ exportPrompt' = Undefined
                /\ xml' = result
                /\ download' = [content |-> result.text,
                                filename |-> answer.filename,
                                mimeType |-> "text/xml"]
                /\ notifications' =
                     Append(notifications,
                            [title |-> "Export Success", type |-> "success",
                             count |-> Len(exportPrompt.effects),
                             filename |-> answer.filename])
                /\ UNCHANGED currentLibrary
    /\ UNCHANGED <<cpVars, regVars, mgrVars, appVars, events, consoleErrors,
                   exportAllParameters>>

\* The dialog's Cancel or close button, or Escape: the promise resolves to
\* null and exportLibrary() returns.
CancelPrompt ==
    /\ exportPrompt # Undefined
    /\ exportPrompt' = Undefined
    /\ lastCall' = [op |-> "cancel"]
    /\ UNCHANGED <<cpVars, regVars, mgrVars, appVars, events, consoleErrors, expVars,
                   currentLibrary, download, notifications>>

\* An editing session that ends in exports: the editor of Init, the rows'
\* expressions edited through the menu, the library exported. The dialog is
\* modal: while it is open only the timers run beside it.
NextSession ==
    \/ \E e \in DOMAIN effects : exportPrompt = Undefined /\ SelectEffect(e)
    \/ TimerFires
    \/ \E edit \in { <<"B", "${A} * 2">>, <<"A", "%ghost% + 1">> } :
          exportPrompt = Undefined /\ EditExpression(edit[1], edit[2])
    \/ \E p \in DOMAIN widgetValue :
          exportPrompt = Undefined /\ ClearExpression(p)
    \/ RequestExport
    \/ \E guids \in GuidRuns : ConfirmFilename("fx", guids)
    \/ CancelPrompt

SpecSession == Init /\ [][NextSession]_vars

\* A schema whose vector definition has no default attribute, which
\* createVector provides for.
LibraryDocument ==
    << [name |-> "Spawn",
        params |->
          << [name |-> "fParticleLifeTime", label |-> "Particle Life Time",
              type |-> "float", default |-> "1.0", widget |-> "slider",
              min |-> "0", max |-> "10", step |-> "0.1", node |-> 1, absent |-> {}],
             [name |-> "fCount", label |-> "Count", type |-> "int",
              default |-> "5", widget |-> "slider", min |-> "0",
              max |-> "100", step |-> "1", node |-> 2, absent |-> {}],
             [name |-> "vDirection", label |-> "Direction", type |-> "vec3",
              default |-> "", widget |-> "vector", min |-> "",
              max |-> "", step |-> "", node |-> 3,
              absent |-> {"default", "min", "max", "step"}] >>] >>

\* The hierarchies a library holds: effects in folders with child effects (as
\* in the sample data), effects under effects and under folders of effects
\* beside an item that is neither, and folders only.
Libraries ==
    LET Item(type, id, items) == [type |-> type, id |-> id, items |-> items]
    IN  { [name |-> "Ships/Thrusters.vfxlib",
           items |-> << Item("folder", "", << Item("effect", "e1",
                                                  << Item("effect", "e2", << >>),
                                                     Item("effect", "e3", << >>) >>) >>),
                        Item("folder", "", << >>) >>],
          [name |-> "",
           items |-> << Item("effect", "e3",
                             << Item("folder", "", << Item("effect", "e1", << >>) >>) >>),
                        Item("curve", "", << >>),
                        Item("effect", "e2", << >>) >>],
          [name |-> "My Lib.vfxlib",
           items |-> << Item("folder", "", << Item("folder", "", << >>) >>) >>] }

\* What the effect items hold when the export is asked for: e2 and e3 are
\* valid, e1 is one of six.
LibraryStores ==
    { [e1 |-> first,
       e2 |-> [name |-> "Thruster_Heat",
               params |-> ObjOf(<<"fCount">>, <<Whole(10)>>),
               expressions |-> ObjOf(<<"fCount">>, <<"${fParticleLifeTime} * 2">>)],
       e3 |-> [name |-> "Thruster_Sparks",
               params |-> ObjOf(<<"fParticleLifeTime">>, <<Num(8)>>),
               expressions |-> EmptyObj]]
      : first \in
          { [name |-> "Thruster_Main",
             params |-> ObjOf(<<"fCount", "fParticleLifeTime">>,
                              <<Whole(150), Whole(2)>>),
             expressions |-> EmptyObj],
            [name |-> "Smoke",
             params |-> ObjOf(<<"fParticleLifeTime">>, <<Whole(0)>>),
             expressions |-> EmptyObj],
            [name |-> "",
             params |-> ObjOf(<<"fCount">>, <<Whole(0 - 1)>>),
             expressions |-> EmptyObj],
            [name |-> "Sparks",
             params |-> ObjOf(<<"fParticleLifeTime", "fCount">>,
                              <<Num(0 - 8), Whole(0)>>),
             expressions |-> EmptyObj],
            [name |-> "Heat",
             params |-> ObjOf(<<"Particle Life Time">>, <<Whole(0 - 1)>>),
             expressions |-> EmptyObj],
            [name |-> "Glow",
             params |-> ObjOf(<<"fParticleLifeTime", "fCount">>, <<NaN, NaN>>),
             expressions |-> EmptyObj] } }

\* The editor after init() with a library loaded and its first effect, if it
\* has one, selected.
InitLibrary ==
    /\ LET reg == ParseGroups(NewRegistry, LibraryDocument)
       IN  /\ parameterGroups = reg.parameterGroups
           /\ parameterMap = reg.parameterMap
           /\ parameterByLabel = reg.parameterByLabel
           /\ aliases = reg.aliases
    /\ loadResult = "groups"
    /\ renderMode = "undefined"
    /\ NoCheckpoints
    /\ widgetValue = EmptyMap
    /\ expressions = EmptyMap
    /\ references = EmptyMap
    /\ dependents = EmptyMap
    /\ timers = << >>
    /\ effects \in LibraryStores
    /\ currentLibrary \in Libraries
    /\ selectedEffect = IF gatherEffectData(currentLibrary) = << >> THEN "null"
                        ELSE Head(gatherEffectData(currentLibrary))
    /\ events = << >>
    /\ consoleErrors = << >>
    /\ lastCall = [op |-> "init"]
    /\ exportAllParameters = FALSE
    /\ xml = Undefined
    /\ NoExportRequest

NextLibrary ==
    \/ \E change \in { <<"vDirection", Vec(<<Whole(0), Whole(0), Whole(1)>>)>>,
                        <<"fParticleLifeTime", Whole(0)>>,
                        <<"fCount", Whole(7)>> } :
          /\ selectedEffect # "null"
          /\ exportPrompt = Undefined
          /\ ParameterChanged(change[1], change[2])
    \/ RequestExport
    \/ \E text \in {"fx.xml", " fx.xml ", "fx", "a.XML", "  ", ""}, guids \in GuidRuns :
          ConfirmFilename(text, guids)
    \/ CancelPrompt

SpecLibrary == InitLibrary /\ [][NextLibrary]_vars

-----------------------------------------------------------------------------
(* C1 *)

\* C1: after any sequence of setExpression, clearExpression, resetParameter
\* and loadEffect calls, every member m of dependents[p] has p in
\* references[m].
C1_DependentsWithinReferences ==
    \A p \in DOMAIN dependents :
        \A m \in Range(dependents[p]) :
            MapHas(references, m) /\ p \in references[m]

\* An expression was just cleared (by the menu or by a reset) while another
\* row still depends on a parameter.
C1_Witness ==
    /\ lastCall.op \in {"clearExpression", "resetParameter"}
    /\ \E p \in DOMAIN dependents : dependents[p] = << >>
    /\ \E p \in DOMAIN dependents : dependents[p] # << >>

-----------------------------------------------------------------------------
(* C2 *)

\* C2: in every reachable state, every parameter m that has an expression is
\* a member of dependents[r] for every name r its expression references, and
\* references has an entry for m exactly when expressions has one.
C2_DependentsInverseOfReferences ==
    /\ \A m \in DOMAIN expressions :
           \A r \in extractReferences(expressions[m]) :
               MapHas(dependents, r) /\ m \in Range(dependents[r])
    /\ DOMAIN references = DOMAIN expressions

\* Two rows have expressions that read the same parameter, the second one
\* installed by the last call.
C2_Witness ==
    /\ lastCall.op = "setExpression"
    /\ \E r \in DOMAIN dependents : Len(dependents[r]) = 2

-----------------------------------------------------------------------------
(* C3 *)

\* the number a row's widget shows
ValueOf(name) == getParameterValue([widgetValue |-> widgetValue], name)

\* the direct dependents of a parameter
DependentsOf(name) ==
    IF MapHas(dependents, name) THEN Range(dependents[name]) ELSE {}

\* the value of a row's expression over the values the rows show now
ExpressionValue(name) ==
    EvalJS(SubstituteReferences(expressions[name],
                                [n \in RowNames |-> ValueOf(n)]))

\* the number a slider shows for n: n brought into [min, max] and written
\* with no decimals when the step is at least 1, with two otherwise
SliderShows(name, n) ==
    ParseFloat(SliderText(getParameter(TheRegistry, name),
                          Clamp(SliderMin(getParameter(TheRegistry, name)).v,
                                SliderMax(getParameter(TheRegistry, name)).v,
                                n.v)))

\* the two examples of the claim
C3_Examples ==
    /\ ( /\ lastCall = [op |-> "setExpression", name |-> "B",
                        expression |-> "${A} * 2"]
         /\ ValueOf("A") = Whole(3) )
       => ValueOf("B") = Whole(6)
    /\ ( /\ lastCall = [op |-> "handleValueChange", name |-> "A",
                        value |-> Whole(10)]
         /\ MapHas(expressions, "B") /\ expressions["B"] = "${A} * 2" )
       => ValueOf("B") = Whole(20)

\* C3 as stated: the examples hold, and after handleValueChange(p) every
\* direct dependent of p holds the value of its expression evaluated over the
\* current parameter values.
C3_DependentsHoldExpressionValue ==
    /\ C3_Examples
    /\ lastCall.op = "handleValueChange" =>
           \A d \in DependentsOf(lastCall.name) :
               ExpressionValue(d).ok => ValueOf(d) = ExpressionValue(d).v

\* C3 amended: the examples hold, and after handleValueChange(p) every direct
\* dependent of p whose expression evaluates and reads no direct dependent of
\* p shows the value of its expression over the current parameter values,
\* clamped to its slider's range and rounded to its slider's precision.
C3_DependentsShowClampedValue ==
    /\ C3_Examples
    /\ lastCall.op = "handleValueChange" =>
           \A d \in DependentsOf(lastCall.name) :
               ( /\ ExpressionValue(d).ok
                 /\ references[d] \cap DependentsOf(lastCall.name) = {} )
               => ValueOf(d) = SliderShows(d, ExpressionValue(d).v)

\* handleValueChange has re-evaluated a dependent whose expression is worth
\* more than its slider can show.
C3_Witness ==
    /\ lastCall.op = "handleValueChange"
    /\ \E d \in DependentsOf(lastCall.name) :
           /\ ExpressionValue(d).ok
           /\ references[d] \cap DependentsOf(lastCall.name) = {}
           /\ ValueOf(d) # ExpressionValue(d).v
           /\ ValueOf(d) = SliderShows(d, ExpressionValue(d).v)

-----------------------------------------------------------------------------
(* C4 *)

\* the effect the export was given
Exported == effects[selectedEffect]

\* the keys of effect.params that getParameter resolves
ResolvedKeys ==
    {p \in Range(Exported.params.keys) : getParameter(TheRegistry, p) # Undefined}

\* the attributes of <Params> written for entry p of effect.params
ParamAttributesOf(p) ==
    {i \in DOMAIN xml.attrs : xml.attrs[i].kind = "param" /\ xml.attrs[i].key = p}

\* C4: with exportAllParameters = false, for every key p of the params of
\* the exported effect that resolves to a definition, <Params> holds no
\* attribute for p if and only if params[p] equals the default of the
\* definition coerced to its type; a life time of 2.5 against the default
\* "1.0" is written fParticleLifeTime="2.500".
C4_OmittedIffDefault ==
    (xml # Undefined /\ ~exportAllParameters) =>
        \A p \in ResolvedKeys :
            /\ ParamAttributesOf(p) = {}
                 <=> Exported.params.vals[p]
                       = CoerceDefault(getParameter(TheRegistry, p))
            /\ (getParameter(TheRegistry, p).name = "fParticleLifeTime"
                  /\ Exported.params.vals[p] = Num(40))
                 => \E i \in ParamAttributesOf(p) :
                        /\ xml.attrs[i].name = "fParticleLifeTime"
                        /\ xml.attrs[i].value = "2.500"

\* a life time of 2.5 was written and a count left at its default was not
C4_Witness ==
    /\ xml # Undefined /\ ~exportAllParameters
    /\ Exported.params.keys = <<"fParticleLifeTime", "fCount">>
    /\ Exported.params.vals["fParticleLifeTime"] = Num(40)
    /\ Exported.params.vals["fCount"] = Whole(5)
    /\ ParamAttributesOf("fParticleLifeTime") # {}
    /\ ParamAttributesOf("fCount") = {}

-----------------------------------------------------------------------------
(* C5 *)

\* C5: with exportAllParameters set, every entry of the params of the
\* exported effect whose name resolves to a definition has its attribute in
\* <Params>, named by the internal name and holding the formatted value,
\* whether or not the value equals the coerced default.
C5_AllResolvedEmitted ==
    (xml # Undefined /\ exportAllParameters) =>
        \A p \in ResolvedKeys :
            \E i \in ParamAttributesOf(p) :
                /\ xml.attrs[i].name = getParameter(TheRegistry, p).name
                /\ xml.attrs[i].value = formatValue(Exported.params.vals[p])

\* a count left at its default was written
C5_Witness ==
    /\ xml # Undefined /\ exportAllParameters
    /\ "fCount" \in ResolvedKeys
    /\ Exported.params.vals["fCount"] = CoerceDefault(getParameter(TheRegistry, "fCount"))
    /\ ParamAttributesOf("fCount") # {}

-----------------------------------------------------------------------------
(* C6 *)

\* the names and values of the attributes of <Params>, in order
AttributePairs(out) ==
    [i \in DOMAIN out.attrs |-> <<out.attrs[i].name, out.attrs[i].value>>]

-----------------------------------------------------------------------------
(* C7 *)

\* t is written with digits only, no decimal point
IntegerText(t) ==
    t # "" /\ \A i \in 1..Len(t) : Ch(t, i) \in DigitChars

\* t is digits, a point, and exactly three digits
ThreeDecimals(t) ==
    /\ Len(t) >= 5
    /\ Ch(t, Len(t) - 3) = "."
    /\ \A i \in (1..Len(t)) \ {Len(t) - 3} : Ch(t, i) \in DigitChars

\* the thousandths a text of ThreeDecimals denotes
Thousandths(t) ==
    1000 * DigitsValue(t, 1, Len(t) - 4) + DigitsValue(t, Len(t) - 2, 3)

\* the rule for a number that is not negative: an integer is written by its
\* digits, any other number by the nearest thousandth
NumberRule(n, t) ==
    IF n.v % NumScale = 0
    THEN IntegerText(t) /\ DigitsValue(t, 1, Len(t)) * NumScale = n.v
    ELSE ThreeDecimals(t)
           /\ 2 * Abs(1000 * n.v - NumScale * Thousandths(t)) <= NumScale

\* the rule for a number, a boolean, and a vector of numbers
FormatRule(value, t) ==
    CASE value.t = "num" -> NumberRule(value, t)
      [] value.t = "bool" -> t = (IF value.v THEN "true" ELSE "false")
      [] value.t = "vec" ->
            /\ Len(Split(t, ",")) = Len(value.v)
            /\ \A i \in DOMAIN value.v : NumberRule(value.v[i], Split(t, ",")[i])
      [] OTHER -> TRUE

\* attribute i was written for an entry of params that holds value
Wrote(i, value) ==
    /\ Exported.params.vals[xml.attrs[i].key].t = value.t
    /\ Exported.params.vals[xml.attrs[i].key] = value

\* C7: every number, boolean and vector the export writes follows the rule:
\* an integer without a decimal point, any other number with exactly three
\* decimals, a vector component by component joined by commas, a boolean as
\* true or false; 5 is written "5", 5.5 "5.500" and [1,2.5,0] "1,2.500,0".
C7_NumbersFormatted ==
    xml # Undefined =>
        \A i \in DOMAIN xml.attrs :
            xml.attrs[i].kind = "param" =>
                /\ FormatRule(Exported.params.vals[xml.attrs[i].key],
                              xml.attrs[i].value)
                /\ Wrote(i, Whole(5)) => xml.attrs[i].value = "5"
                /\ Wrote(i, Num(88)) => xml.attrs[i].value = "5.500"
                /\ Wrote(i, Vec(<<Whole(1), Num(40), Whole(0)>>))
                     => xml.attrs[i].value = "1,2.500,0"

\* 5.5 and the vector [1,2.5,0] were written
C7_Witness ==
    /\ xml # Undefined
    /\ Exported.params.keys = <<"fCount", "vDirection">>
    /\ Exported.params.vals["fCount"] = Num(88)
    /\ Exported.params.vals["vDirection"] = Vec(<<Whole(1), Num(40), Whole(0)>>)
    /\ ParamAttributesOf("fCount") # {}
    /\ ParamAttributesOf("vDirection") # {}

-----------------------------------------------------------------------------
(* C8 *)

\* value is a colour: "#rrggbb", or {r, g, b} with channels 0..255
IsColour(value) ==
    \/ /\ value.t = "str"
       /\ Len(value.v) = 7
       /\ Ch(value.v, 1) = "#"
       /\ \A i \in 2..7 : Ch(value.v, i) \in HexChars
    \/ /\ value.t = "rgb"
       /\ {value.r, value.g, value.b} \subseteq 0..255

\* the channels of a colour
Channels(value) ==
    IF value.t = "rgb" THEN <<value.r, value.g, value.b>>
    ELSE <<HexPair(value.v, 2), HexPair(value.v, 4), HexPair(value.v, 6)>>

\* t is channel / 255 at three decimals
ChannelRule(channel, t) ==
    /\ ThreeDecimals(t)
    /\ 2 * Abs(1000 * channel - 255 * Thousandths(t)) <= 255

\* C8: every colour the export writes, given as "#rrggbb" or as {r, g, b}
\* with channels 0..255, is written as three numbers joined by commas, each
\* channel / 255 at three decimals; "#ff0000" and {r:255, g:0, b:0} are both
\* written "1.000,0.000,0.000".
C8_ColoursFormatted ==
    xml # Undefined =>
        \A i \in DOMAIN xml.attrs :
            (xml.attrs[i].kind = "param"
               /\ IsColour(Exported.params.vals[xml.attrs[i].key])) =>
                /\ Len(Split(xml.attrs[i].value, ",")) = 3
                /\ \A c \in 1..3 :
                      ChannelRule(Channels(Exported.params.vals[xml.attrs[i].key])[c],
                                  Split(xml.attrs[i].value, ",")[c])
                /\ Exported.params.vals[xml.attrs[i].key]
                       \in {Str("#ff0000"), Rgb(255, 0, 0)}
                     => xml.attrs[i].value = "1.000,0.000,0.000"

\* the colour "#FF8833" was written
C8_Witness ==
    /\ xml # Undefined
    /\ "cColor" \in ResolvedKeys
    /\ Exported.params.vals["cColor"] = Str("#FF8833")
    /\ \E i \in ParamAttributesOf("cColor") :
          xml.attrs[i].value = "1.000,0.533,0.200"

-----------------------------------------------------------------------------
(* C11 *)

\* the parameterChanged events of the last handler that name p
EventsFor(p) == {i \in DOMAIN events : events[i][1] = p}

\* evaluateExpression(p) failed in this step. The value p showed when it was
\* called is the value before the step, or, when the step is the change of
\* p's own slider, the value the slider was given; that change dispatches
\* its own event for p after the evaluations.
FailedEvaluationKeeps(p) ==
    IF lastCall'.op = "handleValueChange" /\ lastCall'.name = p
    THEN /\ widgetValue'[p]
              = SliderText(getParameter(TheRegistry, p), lastCall'.value.v)
         /\ \A i \in EventsFor(p)' : i = Len(events')
    ELSE /\ MapHas(widgetValue, p) => widgetValue'[p] = widgetValue[p]
         /\ EventsFor(p)' = {}

\* C11: when the evaluation of a target's expression fails, the handler
\* still completes, the target shows the value it showed when the
\* evaluation was called, and no parameterChanged event is dispatched for
\* the target by the evaluation.
C11_FailedEvaluationKeepsValue ==
    [][\A p \in {consoleErrors'[i].param : i \in DOMAIN consoleErrors'} :
          FailedEvaluationKeeps(p)]_vars

\* setExpression installed an expression whose evaluation failed
C11_Witness ==
    /\ lastCall.op = "setExpression"
    /\ Len(consoleErrors) = 1
    /\ consoleErrors[1].param = lastCall.name
    /\ MapHas(expressions, lastCall.name)

-----------------------------------------------------------------------------
(* C12 *)

\* the members of dependents[r] other than p, for every r
DependentsWithout(deps, p) ==
    [r \in DOMAIN deps |-> Range(deps[r]) \ {p}]

\* the entries of a map other than the one of p
EntriesWithout(map, p) ==
    [q \in (DOMAIN map) \ {p} |-> map[q]]

\* C12: after clearExpression(p), called from the menu or by a reset, p has
\* no expression, references has no entry for p, p is a member of no
\* dependents set, and the expressions, references and dependents of every
\* other parameter are what they were.
C12_ClearRemovesEdges ==
    [][lastCall'.op \in {"clearExpression", "resetParameter"} =>
          /\ ~MapHas(expressions', lastCall'.name)
          /\ ~MapHas(references', lastCall'.name)
          /\ \A r \in DOMAIN dependents' :
                lastCall'.name \notin Range(dependents'[r])
          /\ EntriesWithout(expressions', lastCall'.name)
                = EntriesWithout(expressions, lastCall'.name)
          /\ EntriesWithout(references', lastCall'.name)
                = EntriesWithout(references, lastCall'.name)
          /\ DependentsWithout(dependents', lastCall'.name)
                = DependentsWithout(dependents, lastCall'.name)]_vars

\* the menu cleared the expression of a row while another row kept its own
C12_Witness ==
    /\ lastCall.op = "clearExpression"
    /\ expressions # EmptyMap
    /\ \E r \in DOMAIN dependents : dependents[r] # << >>
    /\ \E r \in DOMAIN dependents : dependents[r] = << >>

-----------------------------------------------------------------------------
(* C13 *)

\* C13: clearExpression(p) from the menu leaves every row showing what it
\* showed, p included, stores nothing in the effect and dispatches no
\* parameterChanged event.
C13_ClearKeepsValues ==
    [][lastCall'.op = "clearExpression" =>
          /\ widgetValue' = widgetValue
          /\ effects' = effects
          /\ events' = << >>]_vars

\* the expression of a row that shows a computed value, not its default, was
\* cleared
C13_Witness ==
    /\ lastCall.op = "clearExpression"
    /\ widgetValue[lastCall.name]
         # SliderInitial(getParameter(TheRegistry, lastCall.name))

-----------------------------------------------------------------------------
(* C14 *)

\* the keys of effect.params that getParameter does not resolve
UnresolvedKeys == Range(Exported.params.keys) \ ResolvedKeys

\* C14: in the text an export returns, a key of effect.params that resolves
\* to no definition has no attribute in <Params>, and the entries that do
\* resolve are written as they would be without it: always under
\* exportAllParameters, otherwise when the value is not the coerced default.
C14_UnknownKeySkipped ==
    xml # Undefined =>
        /\ \A p \in UnresolvedKeys :
              \A i \in DOMAIN xml.attrs :
                  xml.attrs[i].kind = "param" =>
                      xml.attrs[i].key # p /\ xml.attrs[i].name # escapeXML(p)
        /\ \A p \in ResolvedKeys :
              (exportAllParameters
                 \/ Exported.params.vals[p]
                      # CoerceDefault(getParameter(TheRegistry, p)))
                => ParamAttributesOf(p) # {}

\* an unknown key precedes a key whose value was written
C14_Witness ==
    /\ xml # Undefined
    /\ Exported.params.keys = <<"zz", "fCount">>
    /\ ParamAttributesOf("zz") = {}
    /\ ParamAttributesOf("fCount") # {}

-----------------------------------------------------------------------------
(* C15 *)

\* the display labels of the schema
HeldLabels == {d.label : d \in HeldDefinitions}

\* C15: every attribute written for an entry of effect.params carries the
\* internal name of the definition the entry's key resolves to, and no
\* display label; an entry keyed by the label "Particle Life Time" is
\* written as fParticleLifeTime.
C15_NamedByInternalName ==
    xml # Undefined =>
        \A i \in DOMAIN xml.attrs :
            xml.attrs[i].kind = "param" =>
                /\ xml.attrs[i].name
                     = getParameter(TheRegistry, xml.attrs[i].key).name
                /\ xml.attrs[i].name \in RowNames
                /\ xml.attrs[i].name \notin HeldLabels
                /\ xml.attrs[i].key = "Particle Life Time"
                     => xml.attrs[i].name = "fParticleLifeTime"

\* an entry keyed by a display label was written
C15_Witness ==
    /\ xml # Undefined
    /\ \E i \in ParamAttributesOf("Particle Life Time") :
          xml.attrs[i].name = "fParticleLifeTime"

-----------------------------------------------------------------------------
(* C16 *)

\* the export that has just been downloaded
Downloaded == lastCall.op = "confirm" /\ lastCall.result = "downloaded"

\* attrs holds exactly one attribute for the expression `text` of parameter
\* p: it follows every parameter-value attribute and its value is the
\* expression, XML-escaped
ExpressionWritten(attrs, p, text) ==
    /\ Cardinality({j \in DOMAIN attrs :
                       attrs[j].kind = "expression" /\ attrs[j].name = p}) = 1
    /\ \A j \in DOMAIN attrs :
          (attrs[j].kind = "expression" /\ attrs[j].name = p) =>
              /\ attrs[j].value = escapeXML(text)
              /\ \A k \in DOMAIN attrs : attrs[k].kind = "param" => k < j

\* C16: in every downloaded export, each expression active in the expression
\* engine for the effect being edited appears as one attribute of that
\* effect's <Params> element, after the parameter-value attributes, with the
\* XML-escaped expression as its value; an expression set through
\* setExpression and not cleared is never missing.
C16_ActiveExpressionsExported ==
    (Downloaded /\ selectedEffect # "null") =>
        \A p \in DOMAIN expressions :
            \E i \in DOMAIN xml.particles :
                /\ xml.particles[i].effect = selectedEffect
                /\ ExpressionWritten(xml.particles[i].element.attrs, p,
                                     expressions[p])

-----------------------------------------------------------------------------
(* C17 *)

\* the effects of a hierarchy, each with its path: the positions, from the
\* top down, of the effects and folders it lies under and its own
RECURSIVE EffectPaths(_, _)
EffectPaths(items, prefix) ==
    UNION { (IF items[i].type = "effect"
             THEN {[id |-> items[i].id, path |-> Append(prefix, i)]} ELSE {})
              \cup (IF items[i].type \in {"effect", "folder"}
                    THEN EffectPaths(items[i].items, Append(prefix, i)) ELSE {})
            : i \in DOMAIN items }

\* path p precedes path q depth-first: p is a proper prefix of q, or p turns
\* to an earlier sibling where they part
RECURSIVE PathBefore(_, _)
PathBefore(p, q) ==
    IF p = << >> THEN q # << >>
    ELSE IF q = << >> THEN FALSE
    ELSE \/ Head(p) < Head(q)
         \/ Head(p) = Head(q) /\ PathBefore(Tail(p), Tail(q))

\* C17: a downloaded document holds one <Particles> element, with one
\* <Params> child, for each effect of the library hierarchy (child effects
\* included, folders none), and the elements are in depth-first order: an
\* effect before its children, siblings in the order of the input.
C17_OneElementPerEffectDepthFirst ==
    Downloaded =>
        LET placed == EffectPaths(currentLibrary.items, << >>)
            written == xml.particles
            Occurrences(text, pattern) ==
                Cardinality({i \in 1..(Len(text) - Len(pattern) + 1) :
                                SubSeq(text, i, i + Len(pattern) - 1) = pattern})
        IN  /\ Len(written) = Cardinality(placed)
            /\ \A e \in placed : \E i \in DOMAIN written : written[i].effect = e.id
            /\ \A i, j \in DOMAIN written :
                  i < j => \E a, b \in placed :
                              /\ a.id = written[i].effect
                              /\ b.id = written[j].effect
                              /\ PathBefore(a.path, b.path)
            /\ \A i \in DOMAIN written :
                  /\ Occurrences(written[i].element.text, "<Particles ") = 1
                  /\ Occurrences(written[i].element.text, "<Params ") = 1
                  /\ Occurrences(written[i].element.text, "</Particles>") = 1
            /\ Occurrences(download.content, "<Particles ") = Cardinality(placed)
            /\ Occurrences(download.content, "<Params ") = Cardinality(placed)

\* A library whose first effect holds a folder with an effect, and which has
\* an item that is neither effect nor folder, was downloaded.
C17_Witness ==
    /\ Downloaded
    /\ currentLibrary.name = ""
    /\ [i \in DOMAIN xml.particles |-> xml.particles[i].effect] = <<"e3", "e1", "e2">>

-----------------------------------------------------------------------------
(* C18 *)

\* the errors the three conditions ask for effect e; NumberHeld(key) is the
\* number e holds for the parameter `key`, in sixteenths, if it holds one
ErrorsAskedFor(e) ==
    LET NumberHeld(key) ==
            IF key \in Range(effects[e].params.keys)
                  /\ effects[e].params.vals[key].t = "num"
            THEN {effects[e].params.vals[key].v} ELSE {}
    IN  (IF effects[e].name = "" THEN {"Effect must have a name"} ELSE {})
          \cup (IF \E n \in NumberHeld("fParticleLifeTime") : n <= 0
                THEN {"Lifetime must be greater than 0"} ELSE {})
          \cup (IF \E n \in NumberHeld("fCount") : n < 0
                THEN {"Count cannot be negative"} ELSE {})

\* C18: for every effect exportLibrary validates, validateEffect returns one
\* error for each of these conditions that holds and no other: the effect has
\* no non-empty name; fParticleLifeTime is present with a value <= 0; fCount
\* is present with a value < 0. It returns an empty sequence when none holds,
\* and the effects are as they were before the validation.
C18_ValidateReportsExactly ==
    [][lastCall'.op = "exportLibrary" =>
          /\ effects' = effects
          /\ Len(lastCall'.errors) = Len(gatherEffectData(currentLibrary))
          /\ \A i \in DOMAIN lastCall'.errors :
                LET e == gatherEffectData(currentLibrary)[i]
                IN  /\ Range(lastCall'.errors[i]) = ErrorsAskedFor(e)
                    /\ Len(lastCall'.errors[i]) = Cardinality(ErrorsAskedFor(e))]_vars

\* The effects just validated include one without a name whose count is
\* negative, or one whose lifetime is exactly 0, beside a valid one.
C18_Witness ==
    /\ lastCall.op = "exportLibrary"
    /\ lastCall.result = "prompt"
    /\ \E i \in DOMAIN lastCall.errors : lastCall.errors[i] = << >>
    /\ \E i \in DOMAIN lastCall.errors :
          \/ lastCall.errors[i] = <<"Effect must have a name", "Count cannot be negative">>
          \/ /\ lastCall.errors[i] = <<"Lifetime must be greater than 0">>
             /\ effects[exportPrompt.effects[i]].params.vals["fParticleLifeTime"] = Whole(0)

-----------------------------------------------------------------------------
(* C19 *)

\* C19: validation errors never block the export: once a filename is
\* confirmed, every gathered effect is serialized and the document is
\* downloaded, whatever validateEffect returned; an export request ends
\* without a download only when no effect was gathered or the dialog was
\* cancelled.
C19_OnlyEmptyOrCancelEndsWithoutDownload ==
    /\ (lastCall.op = "exportLibrary" /\ exportPrompt = Undefined) =>
          gatherEffectData(currentLibrary) = << >>
    /\ (lastCall.op = "confirm" /\ exportPrompt = Undefined) =>
          /\ Downloaded
          /\ download.content = xml.text
          /\ [i \in DOMAIN xml.particles |-> xml.particles[i].effect]
                = gatherEffectData(currentLibrary)

-----------------------------------------------------------------------------
(* C20 *)

\* The step obeys the rule of the suffix for the name `name` that was
\* confirmed: an empty name changes nothing and leaves the dialog open, any
\* other is accepted, and a download is made under a filename that ends in
\* ".xml": the name if it ends so, the name with ".xml" appended if not.
NameForcedToXml(name) ==
    LET HasXmlSuffix(text) ==
            Len(text) >= 4 /\ SubSeq(text, Len(text) - 3, Len(text)) = ".xml"
    IN  /\ name = "" => download' = download /\ exportPrompt' = exportPrompt
        /\ name # "" => lastCall'.result # "ignored"
        /\ lastCall'.result = "downloaded" =>
              /\ HasXmlSuffix(download'.filename)
              /\ download'.filename =
                    IF HasXmlSuffix(name) THEN name ELSE name \o ".xml"

\* C20 as stated, the name being the text as typed: every downloaded filename
\* ends in ".xml"; a confirmed name without the suffix gets it appended, one
\* with the suffix is unchanged, an empty one is not accepted, and a
\* cancelled dialog downloads nothing.
C20_TypedNameForcedToXml ==
    [][/\ lastCall'.op = "cancel" => download' = download
       /\ lastCall'.op = "confirm" => NameForcedToXml(lastCall'.text)]_vars

\* C20 amended: the name is the typed text without the blanks around it.
\* Every downloaded filename ends in ".xml"; a confirmed name without the
\* suffix gets it appended, one with the suffix is unchanged, an empty one
\* (a blank text) is not accepted, and a cancelled dialog downloads nothing.
C20_TrimmedNameForcedToXml ==
    [][LET Blank(text) == \A i \in 1..Len(text) : Ch(text, i) = " "
           Stripped(text, name) ==
               /\ \E i, j \in 0..Len(text) :
                     /\ i + Len(name) + j = Len(text)
                     /\ Blank(SubSeq(text, 1, i))
                     /\ SubSeq(text, i + 1, i + Len(name)) = name
                     /\ Blank(SubSeq(text, i + Len(name) + 1, Len(text)))
               /\ name = "" \/ (Ch(name, 1) # " " /\ Ch(name, Len(name)) # " ")
       IN  /\ lastCall'.op = "cancel" => download' = download
           /\ lastCall'.op = "confirm" =>
                 \A name \in {SubSeq(lastCall'.text, i, j) :
                                 i \in 1..(Len(lastCall'.text) + 1),
                                 j \in 0..Len(lastCall'.text)} :
                    Stripped(lastCall'.text, name) => NameForcedToXml(name)]_vars

\* A text with blanks around a name that has the suffix was confirmed and the
\* file downloaded under the name alone.
C20_Witness ==
    /\ Downloaded
    /\ lastCall.text = " fx.xml "
    /\ download.filename = "fx.xml"

-----------------------------------------------------------------------------
(* C21 *)

\* C21: when loadDefinitions fails (the source is unreachable, the response
\* is not OK, or reading a group or a parameter throws) it returns an empty
\* sequence without throwing and the registry is empty: getGroups() is empty
\* and getParameter returns undefined for every name and label.
C21_FailedLoadLeavesRegistryEmpty ==
    loadResult = "empty" =>
        /\ getGroups(TheRegistry) = << >>
        /\ \A key \in SchemaNames \cup SchemaLabels :
              getParameter(TheRegistry, key) = Undefined

-----------------------------------------------------------------------------
(* C22 *)

\* The entry of the tables the last visibility check was about
C22_CheckedEntry ==
    IF lastCall.parameter = 0 THEN parameterGroups[lastCall.group]
    ELSE parameterGroups[lastCall.group].parameters[lastCall.parameter]

\* C22 as stated: a visibility check answers true whenever the declared
\* visibility is "All", equals the render mode exactly, or the render mode
\* is the universal "All"; and under the mode "All" every parameter of the
\* tables is indexed by the registry.
C22_VisibleWheneverAllOrModeMatches ==
    /\ ( /\ lastCall.op = "isVisible"
          /\ \/ C22_CheckedEntry.visible = "All"
             \/ C22_CheckedEntry.visible = renderMode
             \/ renderMode = "All" ) => lastCall.result
    /\ renderMode = "All" =>
          \A gi \in DOMAIN parameterGroups :
             \A pi \in DOMAIN parameterGroups[gi].parameters :
                MapHas(parameterMap, parameterGroups[gi].parameters[pi].name)

\* C22, amended: a visibility check answers true exactly when the declared
\* visibility is absent or "All", or is not "None" and the render mode is
\* "All" or equals it; an entry declared "None" is visible under no mode.
\* After parse the registry indexes a name exactly when a visible group
\* holds a visible parameter of that name, and a check changes nothing of
\* the registry.
C22_VisibleUnlessNone ==
    [][ LET Shown(mode, entry) ==
                \/ entry.visible \in {"", "All"}
                \/ entry.visible # "None" /\ (mode = "All" \/ entry.visible = mode)
        IN  /\ lastCall'.op = "isVisible" =>
                  /\ UNCHANGED regVars
                  /\ lastCall'.result <=>
                        Shown(renderMode,
                              IF lastCall'.parameter = 0
                              THEN parameterGroups[lastCall'.group]
                              ELSE parameterGroups[lastCall'.group]
                                       .parameters[lastCall'.parameter])
            /\ lastCall'.op = "parse" =>
                  \A name \in {"guid", "fCount", "fLifetime"} :
                     MapHas(parameterMap', name) <=>
                        \E gi \in DOMAIN parameterGroups' :
                           /\ Shown(renderMode', parameterGroups'[gi])
                           /\ \E pi \in DOMAIN parameterGroups'[gi].parameters :
                                 /\ parameterGroups'[gi].parameters[pi].name = name
                                 /\ Shown(renderMode',
                                          parameterGroups'[gi].parameters[pi]) ]_vars

\* Under the mode "All" a parameter declared "None" in a visible group is
\* reported invisible and is not indexed
C22_Witness ==
    /\ lastCall.op = "isVisible"
    /\ lastCall.parameter # 0
    /\ renderMode = "All"
    /\ C22_CheckedEntry.visible = "None"
    /\ parameterGroups[lastCall.group].visible = "RParticleGPU"
    /\ ~lastCall.result
    /\ ~MapHas(parameterMap, C22_CheckedEntry.name)

-----------------------------------------------------------------------------
(* C23 *)

\* C23: when C's expression reads B and B's expression reads A, then after
\* A's value changed and handleValueChange(A) completed, B shows its
\* expression evaluated against A's new value and C shows its expression
\* evaluated against B's new value: evaluating either again changes nothing.
C23_ChangeCascades ==
    ( /\ lastCall.op = "handleValueChange"
      /\ lastCall.name = "A"
      /\ ~MapHas(expressions, "A")
      /\ MapHas(references, "B") /\ references["B"] = {"A"}
      /\ MapHas(references, "C") /\ references["C"] = {"B"} )
    => \A m \in {"B", "C"} :
          evaluateExpression(Current, m).widgetValue = widgetValue

-----------------------------------------------------------------------------
(* C24 *)

\* C24: setExpression(p, e) evaluates p only after the graph is updated.
\* The state it leaves holds e as p's expression and the names e reads as
\* p's references, p is a dependent of exactly those names, and the widgets
\* show what evaluating p in that state, with the graph already in
\* agreement, produces.
C24_EvaluatesAfterGraphUpdate ==
    [][ lastCall'.op = "setExpression" =>
          /\ expressions' = MapSet(expressions, lastCall'.name, lastCall'.expression)
          /\ references' = MapSet(references, lastCall'.name,
                                  extractReferences(lastCall'.expression))
          /\ \A r \in DOMAIN dependents \cup DOMAIN dependents'
                         \cup extractReferences(lastCall'.expression) :
                ( /\ MapHas(dependents', r)
                  /\ lastCall'.name \in Range(dependents'[r]) )
                <=> r \in references'[lastCall'.name]
          /\ widgetValue' =
                evaluateExpression([Current EXCEPT !.expressions = expressions',
                                                   !.references = references',
                                                   !.dependents = dependents'],
                                   lastCall'.name).widgetValue ]_vars

\* C's expression was replaced by one that reads other names, after the
\* old one had given C a value
C24_Witness ==
    /\ lastCall.op = "setExpression"
    /\ lastCall.name = "C"
    /\ references["C"] = {"C"}
    /\ dependents["C"] = <<"C">>
    /\ ~MapHas(dependents, "B")
    /\ widgetValue["C"] # SliderInitial(getParameter(TheRegistry, "C"))

-----------------------------------------------------------------------------
(* C25 *)

-----------------------------------------------------------------------------
(* C26 *)

\* C26: once the last timer of loadEffect has run, the engine holds exactly
\* the expressions of the effect loaded last, those whose key resolves to a
\* definition, under the internal name of that definition.
C26_HoldsExpressionsOfLastLoaded ==
    (lastCall.op = "timer" /\ timers = << >>) =>
        LET saved == effects[selectedEffect].expressions
            Resolved == {k \in Range(saved.keys) :
                            getParameter(TheRegistry, k) # Undefined}
            NameOf(k) == getParameter(TheRegistry, k).name
        IN  /\ DOMAIN expressions = {NameOf(k) : k \in Resolved}
            /\ \A k \in Resolved :
                  expressions[NameOf(k)] \in
                      {saved.vals[k2] : k2 \in {k3 \in Resolved : NameOf(k3) = NameOf(k)}}

-----------------------------------------------------------------------------
(* C27 *)

\* C27: in every downloaded export, no attribute name occurs twice in the
\* <Params> element of an effect: neither a parameter that has a value in
\* effect.params and an entry in effect.expressions, nor the fixed
\* attributes Inheritance and ParticleSystem, give two attributes of one
\* name.
C27_NoAttributeNameTwice ==
    Downloaded =>
        \A i \in DOMAIN xml.particles :
            \A j, k \in DOMAIN xml.particles[i].element.attrs :
                j # k => xml.particles[i].element.attrs[j].name
                            # xml.particles[i].element.attrs[k].name

-----------------------------------------------------------------------------
(* C28 *)

\* C28: a name is a key of dependents, which is what marks its row as
\* referenced, exactly when at least one expression that is set reads it;
\* and no key of dependents is mapped to an empty set.
C28_DependentsKeysAreReferenced ==
    /\ \A p \in DOMAIN dependents \cup
                   UNION {extractReferences(expressions[m]) : m \in DOMAIN expressions} :
          MapHas(dependents, p)
             <=> \E m \in DOMAIN expressions : p \in extractReferences(expressions[m])
    /\ \A p \in DOMAIN dependents : dependents[p] # << >>

-----------------------------------------------------------------------------
(* C29 *)

\* C29: setExpression and handleValueChange run to completion on every
\* graph, self-references and cycles included. setExpression(p) evaluates p
\* once: it issues at most one event, for p. handleValueChange(p) evaluates
\* each direct dependent of p exactly once, so that each gives one event or
\* one logged error, and then issues the event of p itself; neither handler
\* is entered again through the events it issues, so no other row is
\* evaluated.
C29_HandlersEvaluateOnce ==
    /\ lastCall.op = "setExpression" =>
          /\ Len(events) + Len(consoleErrors) = 1
          /\ \A i \in DOMAIN events : events[i][1] = lastCall.name
    /\ lastCall.op = "handleValueChange" =>
          /\ events # << >>
          /\ events[Len(events)] = <<lastCall.name, lastCall.value>>
          /\ \A i \in 1..(Len(events) - 1) :
                /\ events[i][1] \in DependentsOf(lastCall.name)
                /\ \A j \in 1..(Len(events) - 1) :
                      i # j => events[i][1] # events[j][1]
          /\ Len(events) - 1 + Len(consoleErrors)
                = Cardinality(DependentsOf(lastCall.name))

\* A's value changed while A, B and C read each other in a cycle
C29_Witness ==
    /\ lastCall.op = "handleValueChange"
    /\ lastCall.name = "A"
    /\ DOMAIN references = {"A", "B", "C"}
    /\ references["A"] = {"C"} /\ references["C"] = {"B"} /\ references["B"] = {"A"}
    /\ Len(events) = 2

-----------------------------------------------------------------------------
(* C30 *)

\* C30: after every createCheckpoint, loadCheckpoint, deleteCheckpoint and
\* addCheckpointSlot, currentCheckpoint is null or names a slot that holds a
\* saved checkpoint; loadCheckpoint on an empty slot changes neither the
\* values of the parameter rows nor currentCheckpoint; and deleting the
\* current slot resets currentCheckpoint to null.
C30_CurrentCheckpointIsSaved ==
    [][ /\ currentCheckpoint' # "null" =>
              /\ MapHas(checkpoints', currentCheckpoint')
              /\ checkpoints'[currentCheckpoint'] # Null
        /\ ( /\ lastCall'.op = "loadCheckpoint"
             /\ \/ ~MapHas(checkpoints, lastCall'.slot)
                \/ checkpoints[lastCall'.slot] = Null )
           => /\ widgetValue' = widgetValue
              /\ currentCheckpoint' = currentCheckpoint
        /\ ( /\ lastCall'.op = "deleteCheckpoint"
             /\ currentCheckpoint = lastCall'.slot )
           => currentCheckpoint' = "null" ]_vars

\* The current slot was deleted while another slot holds a checkpoint
C30_Witness ==
    /\ lastCall.op = "deleteCheckpoint"
    /\ lastCall.current
    /\ currentCheckpoint = "null"
    /\ checkpoints[lastCall.slot] = Null
    /\ \E slot \in DOMAIN checkpoints : checkpoints[slot] # Null

-----------------------------------------------------------------------------
(* C10 *)

\* the parameters a parameter's expression reads, directly or through the
\* expressions of the parameters it reads
RECURSIVE ReadsWithin(_, _)
ReadsWithin(names, steps) ==
    IF steps = 0 THEN names
    ELSE ReadsWithin(names \cup UNION {references[n] : n \in names \cap DOMAIN references},
                     steps - 1)

\* name's expression depends on name itself
OnCycle(name) ==
    /\ MapHas(references, name)
    /\ name \in ReadsWithin(references[name], Cardinality(DOMAIN references))

\* C10: a setExpression call that closes a reference cycle (or installs a
\* self-reference) ends with a reported failure.
C10_CycleReported ==
    (lastCall.op = "setExpression" /\ OnCycle(lastCall.name))
        => consoleErrors # << >>

-----------------------------------------------------------------------------
(* C9 *)

\* C9 as stated: for every definition d the loaded registry holds,
\* getParameter(d.name) and getParameter(d.label) both return d itself.
C9_LookupReturnsDefinition ==
    \A d \in HeldDefinitions :
        /\ getParameter(TheRegistry, d.name) = d
        /\ getParameter(TheRegistry, d.label) = d

\* A definition shadows d's label: it is named like the label, or it was
\* loaded after d with the same label.
LabelShadowed(d) ==
    \E o \in HeldDefinitions :
        /\ o.node # d.node
        /\ \/ o.name = d.label
           \/ o.label = d.label /\ o.node > d.node

\* C9 amended: in a schema of unique internal names, getParameter(d.name)
\* returns d, and getParameter(d.label) returns d when no other definition
\* is named d.label and no definition loaded after d shares d's label.
C9_LookupReturnsUnshadowed ==
    \A d \in HeldDefinitions :
        /\ getParameter(TheRegistry, d.name) = d
        /\ ~LabelShadowed(d) => getParameter(TheRegistry, d.label) = d

\* A loaded registry holding two definitions with distinct names and labels,
\* both found by name and by label.
C9_Witness ==
    /\ loadResult = "groups"
    /\ \E d1, d2 \in HeldDefinitions :
          /\ d1.name # d2.name /\ d1.label # d2.label
          /\ ~LabelShadowed(d1) /\ ~LabelShadowed(d2)
          /\ getParameter(TheRegistry, d1.label) = d1
          /\ getParameter(TheRegistry, d2.name) = d2

====
